---- MODULE Spec2Model ----
(***************************************************************************)
(* Model of yb::tablet::OperationDriver (operation_driver.cc): the two-    *)
(* axis (prepare x replication) state machine of one operation, driven by  *)
(* the threads that call into it: the submitting thread (Init,             *)
(* SetPropagatedSafeTime, ExecuteAsync), the preparer worker               *)
(* (PrepareAndStartTask), the consensus thread (HandleConsensusAppend,     *)
(* ReplicationFinished) and external callers of Abort.  Every critical     *)
(* section under lock_ and every atomic access is one step.                *)
(***************************************************************************)
EXTENDS Integers, FiniteSets, Sequences, TLC

\* ---------------------------------------------------------------- bounds
MaxTerm == 1
MaxOpIndex == 2
MaxAppendCalls == 2
MaxReplicationFinishedCalls == 2
MaxAbortCalls == 2
NumShutdownCallers == 2
MaxDrivers == 2

\* ------------------------------------------------------------- constants
kUnknownTerm == -1

\* consensus::DriverType, the enum the factories of the peer name (a protobuf
\* enum: UNKNOWN_DRIVER = 0, LEADER = 1, REPLICA = 2).
LEADER == 1
REPLICA == 2
InvalidOpId == 0

NOT_REPLICATING == "NOT_REPLICATING"
REPLICATING == "REPLICATING"
REPLICATION_FAILED == "REPLICATION_FAILED"
REPLICATED == "REPLICATED"
NOT_PREPARED == "NOT_PREPARED"
PREPARED == "PREPARED"

ReplicationState == {NOT_REPLICATING, REPLICATING, REPLICATION_FAILED, REPLICATED}
PrepareState == {NOT_PREPARED, PREPARED}

Terms == 1..MaxTerm
OpIds == 1..MaxOpIndex

\* ------------------------------------------------------------- threads
SubT == <<"submit", 0>>
PrepT == <<"prepare", 0>>
ConsT == <<"consensus", 0>>
AbortT == <<"abort", 0>>
Threads == {SubT, PrepT, ConsT, AbortT}

\* ------------------------------------------------- tablet peer: constants
NOT_STARTED == "NOT_STARTED"
BOOTSTRAPPING == "BOOTSTRAPPING"
RUNNING == "RUNNING"
QUIESCING == "QUIESCING"
SHUTDOWN == "SHUTDOWN"
FAILED == "FAILED"
TabletStatePB == {NOT_STARTED, BOOTSTRAPPING, RUNNING, QUIESCING, SHUTDOWN, FAILED}

\* ---------------------------------------------------- tablet peer: threads
LifeT == <<"lifecycle", 0>>
EntryT == <<"entry", 0>>
GCT == <<"loggc", 0>>
ShutdownCallers == {<<"shutdown", i>> : i \in 1..NumShutdownCallers}
PeerThreads == {LifeT, EntryT, GCT} \cup ShutdownCallers
NoThread == <<"none", 0>>
DriverIds == 1..MaxDrivers

VARIABLES
  ndebug,                 \* TRUE: release build (NDEBUG), DFATAL/DCHECK do not abort
  builtBy,                \* who calls Init: a factory of the peer, or a direct caller
  term,                   \* the term argument Init is called with
  argOperation,           \* Init is called with an operation (FALSE: nullptr)
  opStateOpId,            \* operation_->state()->op_id()
  operation_,             \* the driver holds an operation
  replication_state_,
  prepare_state_,
  op_id_copy_,
  propagated_safe_time_,  \* a propagated safe time is attached
  inTracker,              \* the driver is in operation_tracker_
  inPreparer,             \* preparer_->Submit accepted the driver
  pc,                     \* position of every thread
  repl_state_copy,        \* local repl_state_copy of the call a thread is in
  status,                 \* status argument / result held by a thread
  arg,                    \* arguments of the consensus callback in progress
  obs,                    \* calls the driver has made on its collaborators
  initResult,             \* result of Init: "none" before, then "OK"/"error"
  crashed                 \* the process was aborted (CHECK / FATAL)

VARIABLES
  state_,                 \* TabletPeer::state_
  tablet_,                \* tablet_ is set
  log_,                   \* log_ is set
  log_atomic_,            \* log_atomic_ is set
  consensus_,             \* consensus_ is set
  has_consensus_,
  prepare_thread_,        \* prepare_thread_ is set
  maintenance_ops_,       \* the log GC op is registered
  lock_,                  \* holder of TabletPeer::lock_
  state_change_lock_,     \* holder of state_change_lock_
  operation_tracker_,     \* drivers pending in the tracker
  driverOpId,             \* GetOpId().index of every driver (0: not initialized)
  logLatest,              \* log_->GetLatestEntryOpId().index
  sources,                \* what the other sources of the log GC bound answer
  opTypes,                \* operation types: of the pending drivers, reported,
                          \* of the replicate message received and the operation built
  ppc,                    \* position of every peer thread
  plocal,                 \* locals of the call a peer thread is in
  pobs,                   \* calls the peer has made on its collaborators
  pret,                   \* what the step just made returned to its caller
  pcrashed                \* the process died inside a peer call

driverVars == <<operation_, replication_state_, prepare_state_, op_id_copy_,
                propagated_safe_time_, opStateOpId>>
envVars == <<ndebug, builtBy, term, argOperation, sources, opTypes>>
threadVars == <<pc, repl_state_copy, status, arg>>
peerVars == <<state_, tablet_, log_, log_atomic_, consensus_, has_consensus_,
              prepare_thread_, maintenance_ops_, lock_, state_change_lock_,
              operation_tracker_, driverOpId, logLatest, ppc, plocal, pobs,
              pret, pcrashed>>
vars == <<driverVars, envVars, threadVars, obs, inTracker, inPreparer,
          initResult, crashed, peerVars>>

Goto(t, l) == pc' = [pc EXCEPT ![t] = l]

\* Where a thread continues when the call it is in returns.
ReturnPc(t) == IF t \in {ConsT, AbortT} THEN "idle" ELSE "done"

\* LOG(DFATAL) / DCHECK: aborts the process in a debug build only.
DebugFatal == ~ndebug

\* CHECK / LOG(FATAL) on thread t at the named site: the process aborts.
Fatal(t, site) ==
  /\ crashed' = TRUE
  /\ pc' = [pc EXCEPT ![t] = site]

\* A fatal site that changes nothing else.
Crash(t, site) ==
  /\ Fatal(t, site)
  /\ UNCHANGED <<driverVars, envVars, peerVars, repl_state_copy, status, arg, obs,
                 inTracker, inPreparer, initResult>>

\* -------------------------------------------- TabletPeer::TabletPeer
\* The peer as its constructor leaves it: NOT_STARTED, nothing installed,
\* no driver, every thread outside the peer.
NoLocals == [call |-> "none", status |-> "none", min_index |-> 0,
             pending |-> {}, driver |-> 0]

\* What a returning call gives back: its status, the statuses it completed
\* the operation's callback with, and whether it finished the operation as
\* ABORTED.
NoReturn == [call |-> "none", status |-> "none", callbacks |-> << >>,
             finished |-> FALSE]

\* No driver with an operation state, nothing reported, no message received.
NoOpTypes == [type |-> [d \in DriverIds |-> "none"], listed |-> FALSE,
              reported |-> [d \in DriverIds |-> "none"],
              msg |-> "none", created |-> "none"]

\* No anchor, no transaction coordinator, a transaction status table and a
\* local consensus: no source other than the log and the tracker answers.
NoSources == [anchor_status |-> "NotFound", min_anchor_index |-> 0,
              has_coordinator |-> FALSE, prepare_gc |-> 0,
              transaction_status_table |-> TRUE,
              last_committed_write_index |-> 0,
              persistent_status |-> "OK", regular |-> 0, intents |-> 0,
              committed_status |-> "NotFound", committed_index |-> 0]

TabletPeerConstructed ==
  /\ state_ = NOT_STARTED
  /\ tablet_ = FALSE
  /\ log_ = FALSE
  /\ log_atomic_ = FALSE
  /\ consensus_ = FALSE
  /\ has_consensus_ = FALSE
  /\ prepare_thread_ = FALSE
  /\ maintenance_ops_ = FALSE
  /\ lock_ = NoThread
  /\ state_change_lock_ = NoThread
  /\ operation_tracker_ = {}
  /\ driverOpId = [d \in DriverIds |-> 0]
  /\ ppc = [t \in PeerThreads |-> "idle"]
  /\ plocal = [t \in PeerThreads |-> NoLocals]
  /\ pobs = [seq |-> [t \in ShutdownCallers |-> << >>],
             shutdownRequested |-> FALSE, setFailed |-> FALSE,
             registered |-> FALSE, consensusCreated |-> FALSE, markDirty |-> 0,
             consensusShutdown |-> 0, preparerStop |-> 0, logClose |-> 0,
             tabletShutdown |-> 0, unregister |-> 0,
             created |-> 0, kind |-> [d \in DriverIds |-> "none"],
             executed |-> {}, lastAssigned |-> 0, consulted |-> {}]
  /\ pret = NoReturn
  /\ pcrashed = FALSE
  /\ sources = NoSources
  /\ opTypes = NoOpTypes

\* ------------------------------------- OperationDriver::OperationDriver
\* The driver as its constructor leaves it.
OperationDriverConstructed ==
  /\ operation_ = FALSE
  /\ replication_state_ = NOT_REPLICATING
  /\ prepare_state_ = NOT_PREPARED
  /\ op_id_copy_ = InvalidOpId
  /\ propagated_safe_time_ = FALSE
  /\ inTracker = FALSE
  /\ inPreparer = FALSE
  /\ pc = [t \in Threads |-> IF t = SubT THEN "Init" ELSE "idle"]
  /\ repl_state_copy = [t \in Threads |-> NOT_REPLICATING]
  /\ status = [t \in Threads |-> "OK"]
  /\ arg = [op_id |-> InvalidOpId, leader_term |-> kUnknownTerm, applied_op_ids |-> "null"]
  /\ obs = [appendCalls |-> 0, replicationFinishedCalls |-> 0, abortCalls |-> 0,
            replicated |-> 0, aborted |-> 0, release |-> 0,
            addedToLeader |-> 0, addedToFollower |-> 0,
            submittedToPreparer |-> 0, startOperation |-> 0, mvccPushes |-> 0,
            replicatedTerm |-> kUnknownTerm, releasedApplied |-> {},
            abortedStatus |-> "none", applyBy |-> {}, replFirst |-> FALSE,
            assignedOpId |-> InvalidOpId, okAccepted |-> FALSE,
            addResult |-> "none", movedBack |-> FALSE, newRound |-> FALSE]
  /\ initResult = "none"
  /\ crashed = FALSE

\* ------------------------------------------------------------------ Init
\* One driver and the arguments its Init is called with; the peer around
\* it stays as constructed.
Factories == {"NewLeaderOperationDriver", "NewReplicaOperationDriver"}

\* TabletPeer::NewLeaderOperationDriver / NewReplicaOperationDriver: the
\* DriverType each hands to NewOperationDriver.
FactoryDriverType(factory) ==
  IF factory = "NewLeaderOperationDriver" THEN LEADER ELSE REPLICA

\* TabletPeer::NewOperationDriver: operation_driver->Init(operation, type).
\* Init takes (operation, int64_t term): the DriverType converts to the
\* integer Init reads as its term.
NewOperationDriverTerm(type) == type

\* The arguments of Init.  A factory of the peer fixes the term Init
\* receives; a direct caller gives any term.  The leader entry points always
\* bring an operation; NewReplicaOperationDriver is called with an operation
\* whose op-id came off the wire (StartReplicaOperation) or with nullptr
\* (SetPropagatedSafeTime).
InitArguments ==
  /\ ndebug \in BOOLEAN
  /\ term \in IF builtBy = "Init" THEN {kUnknownTerm} \cup Terms
              ELSE {NewOperationDriverTerm(FactoryDriverType(builtBy))}
  /\ argOperation \in BOOLEAN
  /\ (term # kUnknownTerm /\ builtBy # "NewReplicaOperationDriver") => argOperation
  /\ opStateOpId \in IF argOperation
                         /\ (term = kUnknownTerm \/ builtBy = "NewReplicaOperationDriver")
                      THEN OpIds ELSE {InvalidOpId}
  /\ OperationDriverConstructed
  /\ TabletPeerConstructed
  /\ logLatest = 0

\* The driver on its own: Init is called directly.
Init ==
  /\ builtBy = "Init"
  /\ InitArguments

\* The driver and who builds it: a factory of the peer, or a direct caller.
FactoryInit ==
  /\ builtBy \in Factories \cup {"Init"}
  /\ InitArguments

\* ------------------------------------------------- OperationTracker::Release
Release(o, applied_op_ids) ==
  [o EXCEPT !.release = @ + 1, !.releasedApplied = @ \cup {applied_op_ids}]

\* Variant: the operation stays with the driver whatever the tracker says.
InitHoldsOperation_Always(has_operation, result) == has_operation

\* ------------------------------------------------- OperationDriver::Init
\* The driver holds the operation it was given unless the tracker refused
\* the driver: then the operation is moved back to the caller.
InitHoldsOperation(has_operation, result) == has_operation /\ result = "OK"

\* The leader branch calls operation_->NewReplicateMsg(): it needs the
\* operation (consensus_ is set in every driver the peer builds).
InitHasMessage(t, has_operation) == t = kUnknownTerm \/ has_operation

\* Whole call in one step: the driver is not visible to any other thread
\* before operation_tracker_->Add, and only AddedToFollower follows it.
\* Init with a term and without an operation dereferences the null
\* operation_ for the replicate message.
DriverInit ==
  /\ ~crashed
  /\ pc[SubT] = "Init"
  /\ IF ~InitHasMessage(term, argOperation)
     THEN Crash(SubT, "SEGV_Init")
     ELSE /\ \E result \in {"OK", "error"} :
               LET holds == InitHoldsOperation(argOperation, result) IN
               /\ replication_state_' = IF term = kUnknownTerm THEN REPLICATING
                                        ELSE replication_state_
               /\ op_id_copy_' = IF term = kUnknownTerm /\ argOperation
                                 THEN opStateOpId ELSE op_id_copy_
               /\ inTracker' = (result = "OK")
               /\ operation_' = holds
               /\ obs' = [obs EXCEPT
                            !.addResult = result,
                            !.movedBack = argOperation /\ ~holds,
                            !.newRound = (term # kUnknownTerm),
                            !.addedToFollower =
                               IF term = kUnknownTerm /\ holds THEN @ + 1 ELSE @,
                            !.assignedOpId =
                               IF term = kUnknownTerm /\ holds THEN opStateOpId ELSE @]
               /\ initResult' = result
               /\ Goto(SubT, IF result = "OK" THEN "Created" ELSE "done")
          /\ UNCHANGED <<prepare_state_, propagated_safe_time_, opStateOpId, envVars,
                         peerVars, repl_state_copy, status, arg, inPreparer, crashed>>

\* ------------------------------ OperationDriver::SetPropagatedSafeTime
\* Called by the peer between Init and ExecuteAsync: always for an Empty
\* driver, optionally for a replica operation.
SetPropagatedSafeTime ==
  /\ ~crashed
  /\ pc[SubT] = "Created"
  /\ term = kUnknownTerm \/ builtBy = "NewReplicaOperationDriver"
  /\ propagated_safe_time_' = TRUE
  /\ Goto(SubT, "ExecuteAsync")
  /\ UNCHANGED <<operation_, replication_state_, prepare_state_, op_id_copy_,
                 opStateOpId, envVars, peerVars, repl_state_copy, status, arg, obs,
                 inTracker, inPreparer, initResult, crashed>>

\* ------------------------------------------ OperationDriver::ExecuteAsync
\* preparer_->Submit(this): fails when the preparer has been stopped.
ExecuteAsyncSubmit ==
  /\ ~crashed
  /\ \/ pc[SubT] = "ExecuteAsync"
     \/ pc[SubT] = "Created" /\ operation_
  /\ \E s \in {"OK", "SubmitError"} :
       /\ status' = [status EXCEPT ![SubT] = s]
       /\ inPreparer' = (s = "OK")
  /\ Goto(SubT, "EA_submitted")
  /\ UNCHANGED <<driverVars, envVars, peerVars, repl_state_copy, arg, obs, inTracker,
                 initResult, crashed>>

\* Variant: a refused submission is not handled.
ExecuteAsyncThen_Ignores(s) == "done"

\* What ExecuteAsync does with the status of the submission: HandleFailure(s)
\* if !s.ok(), else it returns.
ExecuteAsyncThen(s) == IF s = "OK" THEN "done" ELSE "HF_read"

\* operation_->SubmittedToPreparer(), then HandleFailure(s) if !s.ok().
ExecuteAsyncNotify ==
  /\ ~crashed
  /\ pc[SubT] = "EA_submitted"
  /\ obs' = IF operation_ THEN [obs EXCEPT !.submittedToPreparer = @ + 1] ELSE obs
  /\ Goto(SubT, ExecuteAsyncThen(status[SubT]))
  /\ UNCHANGED <<driverVars, envVars, peerVars, repl_state_copy, status, arg, inTracker,
                 inPreparer, initResult, crashed>>

\* ----------------------------------------- OperationDriver::HandleFailure
\* The locked snapshot of replication_state_.
HandleFailureRead(t) ==
  /\ ~crashed
  /\ pc[t] = "HF_read"
  /\ repl_state_copy' = [repl_state_copy EXCEPT ![t] = replication_state_]
  /\ Goto(t, "HF_switch")
  /\ UNCHANGED <<driverVars, envVars, peerVars, status, arg, obs, inTracker, inPreparer,
                 initResult, crashed>>

\* Variant: a round still replicating is aborted as well.
HandleFailureAborts_Replicating(repl_state) == repl_state # REPLICATED

\* The cases of the switch that abort the operation.
HandleFailureAborts(repl_state) ==
  repl_state \in {NOT_REPLICATING, REPLICATION_FAILED}

\* The switch: Aborted + Release, or LOG(FATAL).
HandleFailureSwitch(t) ==
  /\ ~crashed
  /\ pc[t] = "HF_switch"
  /\ IF HandleFailureAborts(repl_state_copy[t])
     THEN /\ obs' = Release([obs EXCEPT !.aborted = @ + 1,
                                        !.abortedStatus = status[t]], "null")
          /\ inTracker' = FALSE
          /\ Goto(t, ReturnPc(t))
          /\ UNCHANGED <<driverVars, envVars, peerVars, repl_state_copy, status, arg,
                         inPreparer, initResult, crashed>>
     ELSE Crash(t, "FATAL_HandleFailure")

\* ---------------------------------------- OperationDriver::StartOperation
\* The effects of StartOperation on MVCC; the Release of a driver without
\* an operation is in the callers below.
StartOperation(o) ==
  [o EXCEPT !.startOperation = @ + 1,
            !.mvccPushes = IF propagated_safe_time_ THEN @ + 1 ELSE @]

\* ------------------- OperationDriver::PrepareAndStartTask / PrepareAndStart
\* The preparer worker takes the driver and runs operation_->Prepare().
PrepareAndStartPrepare ==
  /\ ~crashed
  /\ pc[PrepT] = "idle"
  /\ inPreparer
  /\ \E s \in (IF operation_ THEN {"OK", "PrepareError"} ELSE {"OK"}) :
       /\ status' = [status EXCEPT ![PrepT] = s]
       /\ Goto(PrepT, IF s = "OK" THEN "PS_lock1" ELSE "HF_read")
  /\ UNCHANGED <<driverVars, envVars, peerVars, repl_state_copy, arg, obs, inTracker,
                 inPreparer, initResult, crashed>>

\* First critical section: CHECK_EQ(prepare_state_, NOT_PREPARED), snapshot.
PrepareAndStartSnapshot ==
  /\ ~crashed
  /\ pc[PrepT] = "PS_lock1"
  /\ IF prepare_state_ # NOT_PREPARED
     THEN Crash(PrepT, "CHECK_NotPrepared")
     ELSE /\ repl_state_copy' = [repl_state_copy EXCEPT ![PrepT] = replication_state_]
          /\ Goto(PrepT, IF replication_state_ # NOT_REPLICATING
                         THEN "PS_start" ELSE "PS_lock2")
          /\ UNCHANGED <<driverVars, envVars, peerVars, status, arg, obs, inTracker,
                         inPreparer, initResult, crashed>>

\* StartOperation() when replication has begun; a driver without an
\* operation releases itself and PrepareAndStart returns OK.
PrepareAndStartStart ==
  /\ ~crashed
  /\ pc[PrepT] = "PS_start"
  /\ IF operation_
     THEN /\ obs' = StartOperation(obs)
          /\ Goto(PrepT, "PS_lock2")
          /\ UNCHANGED inTracker
     ELSE /\ obs' = Release(StartOperation(obs), "null")
          /\ inTracker' = FALSE
          /\ Goto(PrepT, "done")
  /\ UNCHANGED <<driverVars, envVars, peerVars, repl_state_copy, status, arg, inPreparer,
                 initResult, crashed>>

\* Variant: REPLICATING is assigned unconditionally.
PrepareAndStartReplicationState_Always(repl_state) == REPLICATING

\* The replication state PrepareAndStart leaves: REPLICATING if it was still
\* NOT_REPLICATING.
PrepareAndStartReplicationState(repl_state) ==
  IF repl_state = NOT_REPLICATING THEN REPLICATING ELSE repl_state

\* Variant: the prepare worker applies when it finds the round replicated.
PrepareAndStartReturn_Applies(repl_state) ==
  IF repl_state = REPLICATED THEN "AT_replicated" ELSE "done"

\* Where the prepare worker goes after publishing PREPARED: PrepareAndStart
\* returns OK and PrepareAndStartTask ends, whatever the replication state.
PrepareAndStartReturn(repl_state) == "done"

\* Second critical section: set PREPARED, and REPLICATING if still
\* NOT_REPLICATING.
PrepareAndStartPublish ==
  /\ ~crashed
  /\ pc[PrepT] = "PS_lock2"
  /\ IF prepare_state_ # NOT_PREPARED
     THEN Crash(PrepT, "CHECK_NotPrepared")
     ELSE /\ prepare_state_' = PREPARED
          /\ replication_state_' = PrepareAndStartReplicationState(replication_state_)
          /\ obs' = [obs EXCEPT !.replFirst = (replication_state_ = REPLICATED)]
          /\ Goto(PrepT, PrepareAndStartReturn(replication_state_))
          /\ UNCHANGED <<operation_, op_id_copy_, propagated_safe_time_,
                         opStateOpId, envVars, peerVars, repl_state_copy, status, arg,
                         inTracker, inPreparer, initResult, crashed>>

\* Variant: the published op-id never reads as valid.
OpIdValid_Never(op_id) == FALSE

\* ---------------------------------- OperationDriver::HandleConsensusAppend
\* GetOpId().valid(): the published op-id has been assigned.
OpIdValid(op_id) == op_id # InvalidOpId

\* CHECK(!GetOpId().valid()).  The call is followed on every driver, also
\* on one for which Init registered no append callback.
HandleConsensusAppendCheck ==
  /\ ~crashed
  /\ pc[ConsT] = "idle"
  /\ initResult = "OK"
  /\ obs.appendCalls < MaxAppendCalls
  /\ \E op_id \in OpIds :
       /\ arg' = [arg EXCEPT !.op_id = op_id]
       /\ obs' = [obs EXCEPT !.appendCalls = @ + 1]
       /\ IF OpIdValid(op_id_copy_)
          THEN Fatal(ConsT, "CHECK_OpIdNotValid")
          ELSE Goto(ConsT, "HCA_store") /\ UNCHANGED crashed
  /\ UNCHANGED <<driverVars, envVars, peerVars, repl_state_copy, status, inTracker,
                 inPreparer, initResult>>

\* op_id_copy_.store(op_id, release).
HandleConsensusAppendStore ==
  /\ ~crashed
  /\ pc[ConsT] = "HCA_store"
  /\ op_id_copy_' = arg.op_id
  /\ Goto(ConsT, "HCA_added")
  /\ UNCHANGED <<operation_, replication_state_, prepare_state_,
                 propagated_safe_time_, opStateOpId, envVars, peerVars, repl_state_copy,
                 status, arg, obs, inTracker, inPreparer, initResult, crashed>>

\* state->AddedToLeader(op_id, committed_op_id); StartOperation(); return.
\* A driver without an operation dereferences the null operation_.
HandleConsensusAppendStart ==
  /\ ~crashed
  /\ pc[ConsT] = "HCA_added"
  /\ IF ~operation_
     THEN Crash(ConsT, "SEGV_HandleConsensusAppend")
     ELSE /\ opStateOpId' = arg.op_id
          /\ obs' = [StartOperation(obs) EXCEPT !.addedToLeader = @ + 1,
                                                !.assignedOpId = arg.op_id]
          /\ Goto(ConsT, "idle")
          /\ UNCHANGED <<operation_, replication_state_, prepare_state_, op_id_copy_,
                         propagated_safe_time_, envVars, peerVars, repl_state_copy,
                         status, arg, inTracker, inPreparer, initResult, crashed>>

\* ------------------------------------ OperationDriver::ReplicationFinished
\* The leader_term consensus reports for a round: the term the round was
\* bound to (kUnknownTerm for a replica round).
DeliveredTerm == term

\* Entry: LOG_IF(DFATAL, status.ok() && !GetOpId().valid()).
ReplicationFinishedEnter ==
  /\ ~crashed
  /\ pc[ConsT] = "idle"
  /\ initResult = "OK"
  /\ operation_
  /\ obs.replicationFinishedCalls < MaxReplicationFinishedCalls
  /\ \E s \in {"OK", "ReplicationError"} :
       /\ status' = [status EXCEPT ![ConsT] = s]
       /\ arg' = [arg EXCEPT !.leader_term = DeliveredTerm,
                             !.applied_op_ids = IF s = "OK" THEN "applied" ELSE "null"]
       /\ obs' = [obs EXCEPT !.replicationFinishedCalls = @ + 1]
       /\ IF s = "OK" /\ ~OpIdValid(op_id_copy_) /\ DebugFatal
          THEN Fatal(ConsT, "DFATAL_InvalidOpId")
          ELSE Goto(ConsT, "RF_lock") /\ UNCHANGED crashed
  /\ UNCHANGED <<driverVars, envVars, peerVars, repl_state_copy, inTracker, inPreparer,
                 initResult>>

\* The replication state a finished round moves the driver to.
ReplicationFinishedState(s) ==
  IF s = "OK" THEN REPLICATED ELSE REPLICATION_FAILED

\* The call made once prepared: ApplyTask on success, HandleFailure otherwise.
ReplicationFinishedDispatch(s) ==
  IF s = "OK" THEN "AT_replicated" ELSE "HF_read"

\* Variant: no early return for a failed round.
ReplicationFinishedIgnores_Never(repl_state) == FALSE

\* The early return: a round that already failed is ignored.
ReplicationFinishedIgnores(repl_state) == repl_state = REPLICATION_FAILED

\* Variant: no CHECK_EQ, a round is finished in whatever state it is.
ReplicationFinishedAccepts_Any(repl_state) == TRUE

\* Variant: the CHECK_EQ also lets an already replicated round through.
ReplicationFinishedAccepts_NoCheck(repl_state) ==
  repl_state \in {REPLICATING, REPLICATED}

\* CHECK_EQ(replication_state_, REPLICATING).
ReplicationFinishedAccepts(repl_state) == repl_state = REPLICATING

\* The critical section: return if REPLICATION_FAILED, CHECK_EQ REPLICATING,
\* set the new state, snapshot prepare_state_.
ReplicationFinishedLock ==
  /\ ~crashed
  /\ pc[ConsT] = "RF_lock"
  /\ IF ReplicationFinishedIgnores(replication_state_)
     THEN IF status[ConsT] = "OK" /\ DebugFatal
          THEN Crash(ConsT, "DFATAL_ReplicatedAfterFailed")
          ELSE /\ Goto(ConsT, "idle")
               /\ UNCHANGED <<driverVars, envVars, peerVars, repl_state_copy, status, arg,
                              obs, inTracker, inPreparer, initResult, crashed>>
     ELSE IF ~ReplicationFinishedAccepts(replication_state_)
          THEN Crash(ConsT, "CHECK_Replicating")
          ELSE /\ replication_state_' = ReplicationFinishedState(status[ConsT])
               /\ obs' = [obs EXCEPT !.okAccepted = @ \/ (status[ConsT] = "OK")]
               /\ IF prepare_state_ = PREPARED
                  THEN Goto(ConsT, ReplicationFinishedDispatch(status[ConsT]))
                       /\ UNCHANGED crashed
                  ELSE IF DebugFatal
                       THEN Fatal(ConsT, "DFATAL_NotPrepared")
                       ELSE Goto(ConsT, "RF_poll") /\ UNCHANGED crashed
               /\ UNCHANGED <<operation_, prepare_state_, op_id_copy_,
                              propagated_safe_time_, opStateOpId, envVars, peerVars,
                              repl_state_copy, status, arg, inTracker,
                              inPreparer, initResult>>

\* Variant: the poll does not wait for PREPARED.
PollDone_NoWait(prepare_state) == TRUE

\* The exit condition of the recovery poll.
PollDone(prepare_state) == prepare_state = PREPARED

\* The recovery poll: leaves the loop once prepare_state_ reads PREPARED.
ReplicationFinishedPoll ==
  /\ ~crashed
  /\ pc[ConsT] = "RF_poll"
  /\ PollDone(prepare_state_)
  /\ Goto(ConsT, ReplicationFinishedDispatch(status[ConsT]))
  /\ UNCHANGED <<driverVars, envVars, peerVars, repl_state_copy, status, arg, obs,
                 inTracker, inPreparer, initResult, crashed>>

\* Variant: ApplyTask does not forward the leader_term it was given.
ApplyTaskTerm_Unknown(leader_term) == kUnknownTerm

\* --------------------------------------------- OperationDriver::ApplyTask
\* The leader_term ApplyTask hands to operation_->Replicated.
ApplyTaskTerm(leader_term) == leader_term

\* The applied_op_ids ApplyTask hands to operation_tracker_->Release.
ApplyTaskAppliedOpIds(applied_op_ids) == applied_op_ids

\* DCHECKs (debug build), operation_->Replicated(leader_term), LOG_IF(FATAL)
\* on a failed apply.
ApplyTaskReplicated(t) ==
  /\ ~crashed
  /\ pc[t] = "AT_replicated"
  /\ IF DebugFatal /\ ~(replication_state_ = REPLICATED /\ prepare_state_ = PREPARED)
     THEN Crash(t, "DCHECK_ApplyTask")
     ELSE /\ obs' = [obs EXCEPT !.replicated = @ + 1,
                                !.replicatedTerm = ApplyTaskTerm(arg.leader_term),
                                !.applyBy = @ \cup {t}]
          /\ \E applyOk \in BOOLEAN :
               IF applyOk
               THEN Goto(t, "AT_release") /\ UNCHANGED crashed
               ELSE Fatal(t, "FATAL_ApplyFailed")
          /\ UNCHANGED <<driverVars, envVars, peerVars, repl_state_copy, status, arg,
                         inTracker, inPreparer, initResult>>

\* operation_tracker_->Release(this, applied_op_ids).
ApplyTaskRelease(t) ==
  /\ ~crashed
  /\ pc[t] = "AT_release"
  /\ obs' = Release(obs, ApplyTaskAppliedOpIds(arg.applied_op_ids))
  /\ inTracker' = FALSE
  /\ Goto(t, ReturnPc(t))
  /\ UNCHANGED <<driverVars, envVars, peerVars, repl_state_copy, status, arg, inPreparer,
                 initResult, crashed>>

\* Variant: Abort uses the same cases as the switch of HandleFailure.
AbortCallsHandleFailure_Failed(repl_state) ==
  repl_state \in {NOT_REPLICATING, REPLICATION_FAILED}

\* ------------------------------------------------- OperationDriver::Abort
\* Abort calls HandleFailure only from NOT_REPLICATING.
AbortCallsHandleFailure(repl_state) == repl_state = NOT_REPLICATING

\* The locked snapshot and the decision; Abort returns at once unless it
\* goes on to HandleFailure.
Abort ==
  /\ ~crashed
  /\ pc[AbortT] = "idle"
  /\ initResult = "OK"
  /\ obs.abortCalls < MaxAbortCalls
  /\ obs' = [obs EXCEPT !.abortCalls = @ + 1]
  /\ status' = [status EXCEPT ![AbortT] = "AbortError"]
  /\ repl_state_copy' = [repl_state_copy EXCEPT ![AbortT] = replication_state_]
  /\ Goto(AbortT, IF AbortCallsHandleFailure(replication_state_)
                  THEN "HF_read" ELSE ReturnPc(AbortT))
  /\ UNCHANGED <<driverVars, envVars, peerVars, arg, inTracker, inPreparer,
                 initResult, crashed>>

\* ------------------------------------------------------------------ Next
Next ==
  \/ DriverInit
  \/ SetPropagatedSafeTime
  \/ ExecuteAsyncSubmit
  \/ ExecuteAsyncNotify
  \/ PrepareAndStartPrepare
  \/ PrepareAndStartSnapshot
  \/ PrepareAndStartStart
  \/ PrepareAndStartPublish
  \/ HandleConsensusAppendCheck
  \/ HandleConsensusAppendStore
  \/ HandleConsensusAppendStart
  \/ ReplicationFinishedEnter
  \/ ReplicationFinishedLock
  \/ ReplicationFinishedPoll
  \/ \E t \in Threads : ApplyTaskReplicated(t)
  \/ \E t \in Threads : ApplyTaskRelease(t)
  \/ \E t \in Threads : HandleFailureRead(t)
  \/ \E t \in Threads : HandleFailureSwitch(t)
  \/ Abort

Spec == Init /\ [][Next]_vars

FactorySpec == FactoryInit /\ [][Next]_vars

TypeOK ==
  /\ replication_state_ \in ReplicationState
  /\ prepare_state_ \in PrepareState
  /\ op_id_copy_ \in {InvalidOpId} \cup OpIds
  /\ crashed \in BOOLEAN

\* ------------------------------------------------------------- fairness
\* A thread that is inside a call keeps running; whether and when consensus
\* or an external caller makes a call (HandleConsensusAppend,
\* ReplicationFinished, Abort) is left open.
SubmitterStep ==
  \/ DriverInit
  \/ SetPropagatedSafeTime
  \/ ExecuteAsyncSubmit
  \/ ExecuteAsyncNotify
  \/ HandleFailureRead(SubT)
  \/ HandleFailureSwitch(SubT)

PreparerStep ==
  \/ PrepareAndStartPrepare
  \/ PrepareAndStartSnapshot
  \/ PrepareAndStartStart
  \/ PrepareAndStartPublish
  \/ HandleFailureRead(PrepT)
  \/ HandleFailureSwitch(PrepT)

ConsensusStep ==
  \/ HandleConsensusAppendStore
  \/ HandleConsensusAppendStart
  \/ ReplicationFinishedLock
  \/ ReplicationFinishedPoll
  \/ ApplyTaskReplicated(ConsT)
  \/ ApplyTaskRelease(ConsT)
  \/ HandleFailureRead(ConsT)
  \/ HandleFailureSwitch(ConsT)

AborterStep ==
  \/ HandleFailureRead(AbortT)
  \/ HandleFailureSwitch(AbortT)

FairSpec ==
  /\ Spec
  /\ WF_vars(SubmitterStep)
  /\ WF_vars(PreparerStep)
  /\ WF_vars(ConsensusStep)
  /\ WF_vars(AborterStep)

\* =================================================================== claims

\* C1: operation_->Replicated() is invoked at most once for the driver, over
\* every interleaving of ExecuteAsync, PrepareAndStartTask,
\* HandleConsensusAppend, ReplicationFinished and Abort.
SingleApply == obs.replicated <= 1

\* Replicated ran and consensus made a further ReplicationFinished call.
SingleApplyWitness ==
  /\ obs.replicated = 1
  /\ obs.replicationFinishedCalls >= 2

\* C2: every invocation of operation_->Replicated() happens in a state where
\* prepare_state_ is PREPARED and replication_state_ is REPLICATED.
ApplyOnlyWhenPreparedAndReplicated ==
  [][obs'.replicated # obs.replicated
       => prepare_state_ = PREPARED /\ replication_state_ = REPLICATED]_vars

\* A release build (no DCHECK in ApplyTask) applied after the recovery poll.
ApplyOnlyWhenPreparedAndReplicatedWitness ==
  /\ ndebug
  /\ obs.replicated = 1
  /\ obs.replFirst

AtMostOneTerminalNotification ==
  /\ obs.aborted + obs.replicated <= 1
  /\ obs.release <= 1

\* C5: HandleFailure decides on the replication axis alone: its snapshot is
\* replication_state_; from NOT_REPLICATING or REPLICATION_FAILED it calls
\* Aborted(status) and releases the driver, from REPLICATING or REPLICATED it
\* aborts the process and does not call Aborted.
HandleFailureByReplicationState ==
  [][\A t \in Threads :
       /\ (pc[t] = "HF_read" /\ pc'[t] # "HF_read")
            => /\ pc'[t] = "HF_switch"
               /\ repl_state_copy'[t] = replication_state_
       /\ (pc[t] = "HF_switch" /\ pc'[t] # "HF_switch")
            => IF repl_state_copy[t] \in {NOT_REPLICATING, REPLICATION_FAILED}
               THEN /\ obs'.aborted = obs.aborted + 1
                    /\ obs'.abortedStatus = status[t]
                    /\ obs'.release = obs.release + 1
                    /\ ~inTracker'
                    /\ ~crashed'
                    /\ pc'[t] = ReturnPc(t)
               ELSE /\ crashed'
                    /\ pc'[t] = "FATAL_HandleFailure"
                    /\ obs' = obs
                    /\ inTracker' = inTracker]_vars

\* One HandleFailure aborted a failed round and another one was fatal.
HandleFailureByReplicationStateWitness ==
  /\ obs.aborted >= 1
  /\ obs.abortedStatus = "ReplicationError"
  /\ \E t \in Threads : pc[t] = "FATAL_HandleFailure"

LaterReplicationFinishedStep ==
  /\ replication_state_ = REPLICATION_FAILED
  /\ \/ pc[ConsT] = "idle"
        /\ obs'.replicationFinishedCalls = obs.replicationFinishedCalls + 1
     \/ pc[ConsT] = "RF_lock" /\ pc'[ConsT] # "RF_lock"

\* Such a step changes no axis and notifies nobody.
LaterReplicationFinishedQuiet ==
  /\ replication_state_' = replication_state_
  /\ prepare_state_' = prepare_state_
  /\ obs'.replicated = obs.replicated
  /\ obs'.aborted = obs.aborted
  /\ obs'.release = obs.release

\* C7, as stated: REPLICATION_FAILED is never left, and a later
\* ReplicationFinished call, success or failure, returns without changing an
\* axis or invoking Replicated or Aborted.
ReplicationFailedAbsorbingAndReturns ==
  /\ [][replication_state_ = REPLICATION_FAILED
          => replication_state_' = REPLICATION_FAILED]_vars
  /\ [][LaterReplicationFinishedStep
          => /\ LaterReplicationFinishedQuiet
             /\ pc'[ConsT] \in {"RF_lock", "idle"}]_vars

\* C7, amended: REPLICATION_FAILED is never left, and a later
\* ReplicationFinished call changes no axis and invokes neither Replicated
\* nor Aborted; it returns, except that a success status in a debug build
\* stops the process at one of the DFATAL logs.
ReplicationFailedAbsorbing ==
  /\ [][replication_state_ = REPLICATION_FAILED
          => replication_state_' = REPLICATION_FAILED]_vars
  /\ [][LaterReplicationFinishedStep
          => /\ LaterReplicationFinishedQuiet
             /\ \/ pc'[ConsT] \in {"RF_lock", "idle"}
                \/ /\ ~ndebug
                   /\ status'[ConsT] = "OK"
                   /\ pc'[ConsT] \in {"DFATAL_InvalidOpId",
                                      "DFATAL_ReplicatedAfterFailed"}]_vars

\* A success reported after the failure has returned (release build).
ReplicationFailedAbsorbingWitness ==
  /\ replication_state_ = REPLICATION_FAILED
  /\ obs.replicationFinishedCalls = 2
  /\ status[ConsT] = "OK"
  /\ pc[ConsT] = "idle"

\* C8: both axes are monotone: replication_state_ only moves
\* NOT_REPLICATING -> REPLICATING -> {REPLICATED, REPLICATION_FAILED} and
\* prepare_state_ only NOT_PREPARED -> PREPARED; no state is re-entered, so
\* each transition happens at most once.
AxesMonotone ==
  [][/\ \/ replication_state_' = replication_state_
        \/ <<replication_state_, replication_state_'>> \in
             {<<NOT_REPLICATING, REPLICATING>>,
              <<REPLICATING, REPLICATED>>,
              <<REPLICATING, REPLICATION_FAILED>>}
     /\ \/ prepare_state_' = prepare_state_
        \/ <<prepare_state_, prepare_state_'>> = <<NOT_PREPARED, PREPARED>>]_vars

\* A leader driver went through every transition and consensus called again.
AxesMonotoneWitness ==
  /\ term # kUnknownTerm
  /\ prepare_state_ = PREPARED
  /\ replication_state_ = REPLICATED
  /\ obs.replicationFinishedCalls >= 2

\* C9: the published op-id reads as invalid until leader
\* HandleConsensusAppend or follower Init assigns it; once the assigning call
\* has returned every read returns that op-id, and a valid published op-id
\* never changes.
PublishedOpIdStable ==
  /\ [](initResult = "none" => ~OpIdValid(op_id_copy_))
  /\ [](term # kUnknownTerm /\ obs.appendCalls = 0 => ~OpIdValid(op_id_copy_))
  /\ [](OpIdValid(obs.assignedOpId) => op_id_copy_ = obs.assignedOpId)
  /\ [][op_id_copy_ # InvalidOpId => op_id_copy_' = op_id_copy_]_vars

\* A second append with another op-id was refused and the first one stands.
PublishedOpIdStableWitness ==
  /\ pc[ConsT] = "CHECK_OpIdNotValid"
  /\ arg.op_id # op_id_copy_
  /\ op_id_copy_ = obs.assignedOpId
  /\ op_id_copy_ # InvalidOpId

ptrVars == <<tablet_, log_, log_atomic_, consensus_, has_consensus_, prepare_thread_>>
lockVars == <<lock_, state_change_lock_>>
trackerVars == <<operation_tracker_, driverOpId, logLatest>>
driverFrame == <<driverVars, envVars, threadVars, obs, inTracker, inPreparer,
                 initResult, crashed>>

PGoto(t, l) == ppc' = [ppc EXCEPT ![t] = l]

\* A call of thread t begins.
Enter(t, call) == [plocal EXCEPT ![t] = [NoLocals EXCEPT !.call = call]]

\* The step returns from the call with the status; any other step returns
\* nothing.
Returned(call, st) == pret' = [NoReturn EXCEPT !.call = call, !.status = st]
NotReturned == pret' = NoReturn

\* The locals of thread t are gone with its call.

Leave(t) ==
  /\ ppc' = [ppc EXCEPT ![t] = "idle"]
  /\ plocal' = [plocal EXCEPT ![t] = NoLocals]

\* The process dies on thread t at the named site (a null dereference, a
\* DFATAL in a debug build).
PeerCrash(t, site) ==
  /\ pcrashed' = TRUE
  /\ PGoto(t, site)
  /\ NotReturned
  /\ UNCHANGED <<state_, ptrVars, maintenance_ops_, lockVars, trackerVars,
                 plocal, pobs, driverFrame>>

\* State of the peer model at start: the peer as constructed, an empty log,
\* and no driver of the single-driver model in motion.  The only
\* build-dependent site of the peer is the DFATAL of CompleteShutdown; the
\* peer is followed in the build where it aborts the process.
PeerInit ==
  /\ TabletPeerConstructed
  /\ logLatest = 0
  /\ ndebug = FALSE
  /\ builtBy = "Init"
  /\ term = kUnknownTerm
  /\ argOperation = FALSE
  /\ opStateOpId = InvalidOpId
  /\ OperationDriverConstructed

\* ------------------------------------------------- lifecycle: bootstrap
\* NOT_STARTED -> BOOTSTRAPPING is made by the bootstrap code outside this
\* file; the specification lists it as an external transition.
SetBootstrapping ==
  /\ ~pcrashed
  /\ NotReturned
  /\ ppc[LifeT] = "idle"
  /\ state_ = NOT_STARTED
  /\ state_' = BOOTSTRAPPING
  /\ UNCHANGED <<ptrVars, maintenance_ops_, lockVars, trackerVars, ppc, plocal,
                 pobs, pcrashed, driverFrame>>

\* ---------------------------------------------- TabletPeer::InitTabletPeer
\* The state InitTabletPeer accepts.
InitTabletPeerAccepts_Any(state) == TRUE
InitTabletPeerAccepts(state) == state = BOOTSTRAPPING

\* lock_ taken, the state check, tablet_ and log_ installed.
InitTabletPeerLock ==
  /\ ~pcrashed
  /\ ppc[LifeT] = "idle"
  /\ lock_ = NoThread
  /\ IF ~InitTabletPeerAccepts(state_)
     THEN /\ Returned("InitTabletPeer", "IllegalState")
          /\ UNCHANGED <<tablet_, log_, log_atomic_, lock_, ppc, plocal>>
     ELSE /\ plocal' = Enter(LifeT, "InitTabletPeer")
          /\ lock_' = LifeT
          /\ tablet_' = TRUE
          /\ log_' = TRUE
          /\ log_atomic_' = TRUE
          /\ PGoto(LifeT, "ITP_consensus")
          /\ NotReturned
  /\ UNCHANGED <<pobs, state_, consensus_, has_consensus_, prepare_thread_,
                 maintenance_ops_, state_change_lock_, trackerVars, pcrashed,
                 driverFrame>>

\* ConsensusMetadata::Load, then consensus_ and prepare_thread_ installed
\* and lock_ released.
InitTabletPeerConsensus ==
  /\ ~pcrashed
  /\ ppc[LifeT] = "ITP_consensus"
  /\ lock_' = NoThread
  /\ \E loaded \in BOOLEAN :
       IF loaded
       THEN /\ consensus_' = TRUE
            /\ has_consensus_' = TRUE
            /\ prepare_thread_' = TRUE
            /\ pobs' = [pobs EXCEPT !.consensusCreated = TRUE]
            /\ PGoto(LifeT, "ITP_start")
            /\ NotReturned
            /\ UNCHANGED plocal
       ELSE /\ Returned("InitTabletPeer", "LoadError")
            /\ Leave(LifeT)
            /\ UNCHANGED <<consensus_, has_consensus_, prepare_thread_, pobs>>
  /\ UNCHANGED <<state_, tablet_, log_, log_atomic_, maintenance_ops_,
                 state_change_lock_, trackerVars, pcrashed, driverFrame>>

\* prepare_thread_->Start() and the instrumentation, outside the lock.
InitTabletPeerStart ==
  /\ ~pcrashed
  /\ ppc[LifeT] = "ITP_start"
  /\ IF ~prepare_thread_ \/ ~tablet_
     THEN PeerCrash(LifeT, "SEGV_InitTabletPeer")
     ELSE /\ \E started \in BOOLEAN :
               Returned("InitTabletPeer", IF started THEN "OK" ELSE "StartError")
          /\ Leave(LifeT)
          /\ UNCHANGED <<pobs, state_, ptrVars, maintenance_ops_, lockVars, trackerVars,
                         pcrashed, driverFrame>>

\* ------------------------------------------------------- TabletPeer::Start
\* state_change_lock_ taken and consensus_->Start().
StartConsensus ==
  /\ ~pcrashed
  /\ ppc[LifeT] = "idle"
  /\ state_change_lock_ = NoThread
  /\ IF ~consensus_
     THEN PeerCrash(LifeT, "SEGV_Start")
     ELSE /\ \E started \in BOOLEAN :
               IF started
               THEN /\ plocal' = Enter(LifeT, "Start")
                    /\ state_change_lock_' = LifeT
                    /\ PGoto(LifeT, "S_update")
                    /\ NotReturned
               ELSE /\ Returned("Start", "ConsensusError")
                    /\ UNCHANGED <<state_change_lock_, ppc, plocal>>
          /\ UNCHANGED <<pobs, state_, ptrVars, maintenance_ops_, lock_, trackerVars,
                         pcrashed, driverFrame>>

\* TabletPeer::UpdateState: the result of the compare-exchange.
UpdateStateStatus(old, expected) ==
  IF old = expected THEN "OK" ELSE "InvalidArgument"

\* The state Start moves the peer to.
StartNewState(old) == IF old = BOOTSTRAPPING THEN RUNNING ELSE old

\* UpdateState(BOOTSTRAPPING, RUNNING) and the lock released.
StartUpdateState ==
  /\ ~pcrashed
  /\ ppc[LifeT] = "S_update"
  /\ state_' = StartNewState(state_)
  /\ state_change_lock_' = NoThread
  /\ IF UpdateStateStatus(state_, BOOTSTRAPPING) = "OK"
     THEN /\ PGoto(LifeT, "S_dirty")
          /\ NotReturned
          /\ UNCHANGED plocal
     ELSE /\ Returned("Start", UpdateStateStatus(state_, BOOTSTRAPPING))
          /\ Leave(LifeT)
  /\ UNCHANGED <<pobs, ptrVars, maintenance_ops_, lock_, trackerVars, pcrashed,
                 driverFrame>>

\* mark_dirty_clbk_.Run and return.
StartMarkDirty ==
  /\ ~pcrashed
  /\ ppc[LifeT] = "S_dirty"
  /\ pobs' = [pobs EXCEPT !.markDirty = @ + 1]
  /\ Returned("Start", "OK")
  /\ Leave(LifeT)
  /\ UNCHANGED <<state_, ptrVars, maintenance_ops_, lockVars, trackerVars,
                 pcrashed, driverFrame>>

\* ---------------------------------- TabletPeer::RegisterMaintenanceOps
\* Variant: the ops are registered whatever the state.
RegistersIn_Any(state) == TRUE

\* The ops are registered only while the peer is RUNNING.
RegistersIn(state) == state = RUNNING

\* state_change_lock_ taken and state() read.  It is the last start-up
\* task (DCHECK(maintenance_ops_.empty())): it is called once.
RegisterMaintenanceOpsCheck ==
  /\ ~pcrashed
  /\ NotReturned
  /\ ppc[LifeT] = "idle"
  /\ ~pobs.registered
  /\ state_change_lock_ = NoThread
  /\ state_change_lock_' = LifeT
  /\ plocal' = [Enter(LifeT, "RegisterMaintenanceOps") EXCEPT
                  ![LifeT].status = IF RegistersIn(state_) THEN "OK" ELSE "NotRunning"]
  /\ pobs' = [pobs EXCEPT !.registered = TRUE]
  /\ PGoto(LifeT, "RMO_register")
  /\ UNCHANGED <<state_, ptrVars, maintenance_ops_, lock_, trackerVars, pcrashed,
                 driverFrame>>

\* Return if the state read was not RUNNING, else RegisterOp and
\* maintenance_ops_.push_back; the lock released.
RegisterMaintenanceOpsRegister ==
  /\ ~pcrashed
  /\ NotReturned
  /\ ppc[LifeT] = "RMO_register"
  /\ maintenance_ops_' = (plocal[LifeT].status = "OK")
  /\ state_change_lock_' = NoThread
  /\ Leave(LifeT)
  /\ UNCHANGED <<state_, ptrVars, lock_, trackerVars, pobs, pcrashed, driverFrame>>

\* ---------------------------------------------------- TabletPeer::SetFailed
\* The states SetFailed leaves alone.
SetFailedKeeps_OnlyFailed(state) == state = FAILED
SetFailedKeeps(state) == state \in {FAILED, QUIESCING, SHUTDOWN}

\* The compare-exchange loop is one atomic change of state_.  error_ is
\* set once (DCHECK(error_ == nullptr)): SetFailed is called once.
SetFailed ==
  /\ ~pcrashed
  /\ NotReturned
  /\ ~pobs.setFailed
  /\ state_' = IF SetFailedKeeps(state_) THEN state_ ELSE FAILED
  /\ pobs' = [pobs EXCEPT !.setFailed = TRUE]
  /\ UNCHANGED <<ptrVars, maintenance_ops_, lockVars, trackerVars, ppc, plocal,
                 pcrashed, driverFrame>>

\* ------------------------------------------------ TabletPeer::Shutdown
\* A step of the shutdown sequence is logged by the caller that makes it,
\* also when the component it is about is not installed ("no_..."); a
\* caller that does not come to own the shutdown has made no step of it.
Log(t, event) == [pobs EXCEPT !.seq[t] = Append(@, event)]

\* Callers are interchangeable: they enter in index order.
ShutdownMayEnter(t) == \A u \in ShutdownCallers : u[2] < t[2] => ppc[u] # "idle"

\* StartShutdown: if (tablet_) ...
StartShutdownCheckTablet(t) ==
  /\ ~pcrashed
  /\ NotReturned
  /\ t \in ShutdownCallers
  /\ ppc[t] = "idle"
  /\ ShutdownMayEnter(t)
  /\ IF tablet_
     THEN /\ PGoto(t, "SS_flag")
          /\ UNCHANGED pobs
     ELSE /\ PGoto(t, "SS_cas")
          /\ pobs' = Log(t, "no_flag")
  /\ UNCHANGED <<state_, ptrVars, maintenance_ops_, lockVars, trackerVars, plocal,
                 pcrashed, driverFrame>>

\* ... tablet_->SetShutdownRequestedFlag(); tablet_ is read without lock_.
StartShutdownSetFlag(t) ==
  /\ ~pcrashed
  /\ NotReturned
  /\ t \in ShutdownCallers
  /\ ppc[t] = "SS_flag"
  /\ IF ~tablet_
     THEN PeerCrash(t, "SEGV_StartShutdown")
     ELSE /\ pobs' = [Log(t, "flag") EXCEPT !.shutdownRequested = TRUE]
          /\ PGoto(t, "SS_cas")
          /\ UNCHANGED <<state_, ptrVars, maintenance_ops_, lockVars, trackerVars,
                         plocal, pcrashed, driverFrame>>

\* The states in which StartShutdown returns false.
StartShutdownYields_Never(state) == FALSE
StartShutdownYields(state) == state \in {QUIESCING, SHUTDOWN}

\* The load and compare-exchange loop: one atomic change of state_.
StartShutdownCAS(t) ==
  /\ ~pcrashed
  /\ NotReturned
  /\ t \in ShutdownCallers
  /\ ppc[t] = "SS_cas"
  /\ IF StartShutdownYields(state_)
     THEN /\ PGoto(t, "WaitUntilShutdown")
          /\ pobs' = [pobs EXCEPT !.seq[t] = << >>]
          /\ UNCHANGED state_
     ELSE /\ state_' = QUIESCING
          /\ pobs' = Log(t, "quiescing")
          /\ PGoto(t, "SS_unregister")
  /\ UNCHANGED <<ptrVars, maintenance_ops_, lockVars, trackerVars, plocal,
                 pcrashed, driverFrame>>

\* Variant: Unregister returns while the op is still running.
UnregisterReturns_AtOnce(gc) == TRUE

\* op->Unregister(): "ensure that any currently running operation finishes
\* before we proceed with the rest of the shutdown sequence".
UnregisterReturns(gc) == gc = "idle"

\* state_change_lock_ taken, UnregisterMaintenanceOps: Unregister waits for
\* a running maintenance op to finish.
StartShutdownUnregister(t) ==
  /\ ~pcrashed
  /\ NotReturned
  /\ t \in ShutdownCallers
  /\ ppc[t] = "SS_unregister"
  /\ state_change_lock_ = NoThread
  /\ UnregisterReturns(ppc[GCT])
  /\ state_change_lock_' = t
  /\ maintenance_ops_' = FALSE
  /\ pobs' = [Log(t, "unregister") EXCEPT !.unregister = @ + 1]
  /\ PGoto(t, "SS_consensus")
  /\ UNCHANGED <<state_, ptrVars, lock_, trackerVars, plocal, pcrashed, driverFrame>>

\* consensus_->Shutdown() and the lock released.
StartShutdownConsensus(t) ==
  /\ ~pcrashed
  /\ NotReturned
  /\ t \in ShutdownCallers
  /\ ppc[t] = "SS_consensus"
  /\ state_change_lock_' = NoThread
  /\ pobs' = IF consensus_
             THEN [Log(t, "consensus_shutdown") EXCEPT !.consensusShutdown = @ + 1]
             ELSE Log(t, "no_consensus")
  /\ PGoto(t, "CS_wait")
  /\ UNCHANGED <<state_, ptrVars, maintenance_ops_, lock_, trackerVars, plocal,
                 pcrashed, driverFrame>>

\* CompleteShutdown: operation_tracker_.WaitForAllToFinish() returns.
WaitForAllToFinishReturns(pending) == pending = {}

CompleteShutdownWait(t) ==
  /\ ~pcrashed
  /\ NotReturned
  /\ t \in ShutdownCallers
  /\ ppc[t] = "CS_wait"
  /\ WaitForAllToFinishReturns(operation_tracker_)
  /\ pobs' = Log(t, "tracker_empty")
  /\ PGoto(t, "CS_preparer")
  /\ UNCHANGED <<state_, ptrVars, maintenance_ops_, lockVars, trackerVars, plocal,
                 pcrashed, driverFrame>>

\* prepare_thread_->Stop()
CompleteShutdownPreparer(t) ==
  /\ ~pcrashed
  /\ NotReturned
  /\ t \in ShutdownCallers
  /\ ppc[t] = "CS_preparer"
  /\ pobs' = IF prepare_thread_
             THEN [Log(t, "preparer_stop") EXCEPT !.preparerStop = @ + 1]
             ELSE Log(t, "no_preparer")
  /\ PGoto(t, "CS_log")
  /\ UNCHANGED <<state_, ptrVars, maintenance_ops_, lockVars, trackerVars, plocal,
                 pcrashed, driverFrame>>

\* log_->Close()
CompleteShutdownLog(t) ==
  /\ ~pcrashed
  /\ NotReturned
  /\ t \in ShutdownCallers
  /\ ppc[t] = "CS_log"
  /\ pobs' = IF log_
             THEN [Log(t, "log_close") EXCEPT !.logClose = @ + 1]
             ELSE Log(t, "no_log")
  /\ PGoto(t, "CS_tablet")
  /\ UNCHANGED <<state_, ptrVars, maintenance_ops_, lockVars, trackerVars, plocal,
                 pcrashed, driverFrame>>

\* tablet_->Shutdown()
CompleteShutdownTablet(t) ==
  /\ ~pcrashed
  /\ NotReturned
  /\ t \in ShutdownCallers
  /\ ppc[t] = "CS_tablet"
  /\ pobs' = IF tablet_
             THEN [Log(t, "tablet_shutdown") EXCEPT !.tabletShutdown = @ + 1]
             ELSE Log(t, "no_tablet")
  /\ PGoto(t, "CS_reset")
  /\ UNCHANGED <<state_, ptrVars, maintenance_ops_, lockVars, trackerVars, plocal,
                 pcrashed, driverFrame>>

\* lock_ taken; has_consensus_ cleared; consensus_, prepare_thread_ and
\* tablet_ reset.
CompleteShutdownReset(t) ==
  /\ ~pcrashed
  /\ NotReturned
  /\ t \in ShutdownCallers
  /\ ppc[t] = "CS_reset"
  /\ lock_ = NoThread
  /\ lock_' = t
  /\ has_consensus_' = FALSE
  /\ consensus_' = FALSE
  /\ prepare_thread_' = FALSE
  /\ tablet_' = FALSE
  /\ pobs' = Log(t, "refs_dropped")
  /\ PGoto(t, "CS_store")
  /\ UNCHANGED <<state_, log_, log_atomic_, maintenance_ops_, state_change_lock_,
                 trackerVars, plocal, pcrashed, driverFrame>>

\* The DFATAL on a state other than QUIESCING, the store of SHUTDOWN, the
\* lock released, and Shutdown returns.
CompleteShutdownStore(t) ==
  /\ ~pcrashed
  /\ NotReturned
  /\ t \in ShutdownCallers
  /\ ppc[t] = "CS_store"
  /\ IF state_ # QUIESCING /\ DebugFatal
     THEN PeerCrash(t, "DFATAL_BadStateCompletingShutdown")
     ELSE /\ state_' = SHUTDOWN
          /\ lock_' = NoThread
          /\ pobs' = Log(t, "shutdown")
          /\ PGoto(t, "returned")
          /\ UNCHANGED <<ptrVars, maintenance_ops_, state_change_lock_, trackerVars,
                         plocal, pcrashed, driverFrame>>

\* Variants: the poll stops at QUIESCING already; the poll waits for a
\* state the shutdown never stores.
WaitUntilShutdownStops_AtQuiescing(state) == state \in {QUIESCING, SHUTDOWN}
WaitUntilShutdownStops_AtFailed(state) == state = FAILED

\* The state WaitUntilShutdown stops polling at.
WaitUntilShutdownStops(state) == state = SHUTDOWN

\* TabletPeer::WaitUntilShutdown: the poll that ends the loop.
WaitUntilShutdown(t) ==
  /\ ~pcrashed
  /\ NotReturned
  /\ t \in ShutdownCallers
  /\ ppc[t] = "WaitUntilShutdown"
  /\ WaitUntilShutdownStops(state_)
  /\ PGoto(t, "returned")
  /\ UNCHANGED <<state_, ptrVars, maintenance_ops_, lockVars, trackerVars, plocal,
                 pobs, pcrashed, driverFrame>>

\* ------------------------------------------------- submission entry points
\* TabletPeer::CheckRunning
CheckRunning(state) == IF state = RUNNING THEN "OK" ELSE "IllegalState"

LeaderCalls == {"Submit", "WriteAsync", "StartExecution"}
ReplicaCalls == {"StartReplicaOperation", "SetPropagatedSafeTime"}

\* Whether an entry point validates the state before it builds a driver.
ValidatesRunning(call) == call \in {"Submit", "WriteAsync"}

\* Submit (SubmitUpdateTransaction wraps it) and WriteAsync: CheckRunning.
\* StartExecution goes to NewLeaderOperationDriver at once.
LeaderEntry ==
  /\ ~pcrashed
  /\ NotReturned
  /\ ppc[EntryT] = "idle"
  /\ pobs.created < MaxDrivers
  /\ \E call \in LeaderCalls :
       LET st == IF ValidatesRunning(call) THEN CheckRunning(state_) ELSE "OK" IN
       /\ plocal' = [Enter(EntryT, call) EXCEPT ![EntryT].status = st]
       /\ PGoto(EntryT, IF st # "OK" THEN "Complete"
                        ELSE IF call = "WriteAsync" THEN "WA_acquire"
                        ELSE "NewOperationDriver")
  /\ UNCHANGED <<state_, ptrVars, maintenance_ops_, lockVars, trackerVars, pobs,
                 pcrashed, driverFrame>>

\* WriteAsync: tablet_->AcquireLocksAndPerformDocOperations, which hands the
\* operation to StartExecution once its locks are taken.
WriteAsyncAcquire ==
  /\ ~pcrashed
  /\ NotReturned
  /\ ppc[EntryT] = "WA_acquire"
  /\ IF ~tablet_
     THEN PeerCrash(EntryT, "SEGV_WriteAsync")
     ELSE /\ PGoto(EntryT, "NewOperationDriver")
          /\ UNCHANGED <<state_, ptrVars, maintenance_ops_, lockVars, trackerVars,
                         plocal, pobs, pcrashed, driverFrame>>

\* The states StartReplicaOperation accepts.
StartReplicaOperationAccepts_Any(state) == TRUE
StartReplicaOperationAccepts(state) == state \in {RUNNING, BOOTSTRAPPING}

\* StartReplicaOperation: the state check.  Consensus makes the call, so
\* it is made only once consensus exists.
StartReplicaOperationCheck ==
  /\ ~pcrashed
  /\ ppc[EntryT] = "idle"
  /\ pobs.created < MaxDrivers
  /\ pobs.consensusCreated
  /\ IF StartReplicaOperationAccepts(state_)
     THEN /\ plocal' = [Enter(EntryT, "StartReplicaOperation") EXCEPT ![EntryT].status = "OK"]
          /\ PGoto(EntryT, "SRO_build")
          /\ NotReturned
     ELSE /\ Returned("StartReplicaOperation", "IllegalState")
          /\ UNCHANGED <<ppc, plocal>>
  /\ UNCHANGED <<pobs, state_, ptrVars, maintenance_ops_, lockVars, trackerVars,
                 pcrashed, driverFrame>>

\* CreateOperation, clock_->Update, tablet_->UpdateMonotonicCounter.
StartReplicaOperationBuild ==
  /\ ~pcrashed
  /\ NotReturned
  /\ ppc[EntryT] = "SRO_build"
  /\ IF ~tablet_
     THEN PeerCrash(EntryT, "SEGV_StartReplicaOperation")
     ELSE /\ PGoto(EntryT, "NewOperationDriver")
          /\ UNCHANGED <<state_, ptrVars, maintenance_ops_, lockVars, trackerVars,
                         plocal, pobs, pcrashed, driverFrame>>

\* SetPropagatedSafeTime: straight to NewReplicaOperationDriver(nullptr).
PeerSetPropagatedSafeTime ==
  /\ ~pcrashed
  /\ NotReturned
  /\ ppc[EntryT] = "idle"
  /\ pobs.created < MaxDrivers
  /\ pobs.consensusCreated
  /\ plocal' = [Enter(EntryT, "SetPropagatedSafeTime") EXCEPT ![EntryT].status = "OK"]
  /\ PGoto(EntryT, "NewOperationDriver")
  /\ UNCHANGED <<state_, ptrVars, maintenance_ops_, lockVars, trackerVars, pobs,
                 pcrashed, driverFrame>>

\* The index consensus gives the next operation: above every op-id handed
\* out so far and above the log, which receives an entry only after its
\* op-id was handed out ("an operation which doesn't have an opid hasn't
\* been submitted for replication yet", GetEarliestNeededLogIndex).
NextOpIndex == 1 + (IF logLatest >= pobs.lastAssigned THEN logLatest
                    ELSE pobs.lastAssigned)

DriverKind(call) ==
  IF call \in LeaderCalls THEN "leader"
  ELSE IF call = "StartReplicaOperation" THEN "replica" ELSE "empty"

\* The factory an entry point builds its driver with.
Factory(call) ==
  IF call \in LeaderCalls THEN "NewLeaderOperationDriver"
  ELSE "NewReplicaOperationDriver"

\* The term OperationDriver::Init receives from an entry point.
EntryTerm(call) == NewOperationDriverTerm(FactoryDriverType(Factory(call)))

\* NewOperationDriver: CreateOperationDriver reads tablet_->table_type();
\* OperationDriver::Init, given the DriverType as its term, builds the
\* replicate message of a new round when consensus_ is set (a null
\* operation is dereferenced there), publishes the op-id of an operation
\* only for kUnknownTerm, and registers the driver with the tracker, which
\* may refuse it.  When Init fails, the leader entry points go on to
\* complete the callback, StartReplicaOperation returns the error and
\* SetPropagatedSafeTime logs it.
NewOperationDriver ==
  /\ ~pcrashed
  /\ ppc[EntryT] = "NewOperationDriver"
  /\ IF ~tablet_
     THEN PeerCrash(EntryT, "SEGV_CreateOperationDriver")
     ELSE IF consensus_ /\ ~InitHasMessage(EntryTerm(plocal[EntryT].call),
                                           DriverKind(plocal[EntryT].call) # "empty")
     THEN PeerCrash(EntryT, "SEGV_Init")
     ELSE /\ \E added \in BOOLEAN :
               LET d == pobs.created + 1
                   call == plocal[EntryT].call
                   replica == /\ EntryTerm(call) = kUnknownTerm
                              /\ DriverKind(call) = "replica" IN
               IF added
               THEN /\ operation_tracker_' = operation_tracker_ \cup {d}
                    /\ driverOpId' = [driverOpId EXCEPT ![d] =
                                        IF replica THEN NextOpIndex ELSE 0]
                    /\ pobs' = [pobs EXCEPT
                                  !.created = d,
                                  !.kind[d] = DriverKind(call),
                                  !.lastAssigned = IF replica THEN NextOpIndex ELSE @]
                    /\ plocal' = [plocal EXCEPT ![EntryT].driver = d]
                    /\ PGoto(EntryT, "ExecuteAsync")
                    /\ NotReturned
               ELSE IF call \in LeaderCalls
               THEN /\ plocal' = [plocal EXCEPT ![EntryT].status = "TrackerRejected"]
                    /\ PGoto(EntryT, "Complete")
                    /\ NotReturned
                    /\ UNCHANGED <<operation_tracker_, driverOpId, pobs>>
               ELSE /\ Returned(call, "TrackerRejected")
                    /\ Leave(EntryT)
                    /\ UNCHANGED <<operation_tracker_, driverOpId, pobs>>
          /\ UNCHANGED <<state_, ptrVars, maintenance_ops_, lockVars, logLatest,
                         pcrashed, driverFrame>>

\* driver->ExecuteAsync(); the replica entry points read
\* tablet_->mvcc_manager() first when they attach a safe time.
EntryExecuteAsync ==
  /\ ~pcrashed
  /\ ppc[EntryT] = "ExecuteAsync"
  /\ \/ /\ plocal[EntryT].call \in ReplicaCalls
        /\ ~tablet_
        /\ PeerCrash(EntryT, "SEGV_SetPropagatedSafeTime")
     \/ /\ plocal[EntryT].call = "SetPropagatedSafeTime" => tablet_
        /\ pobs' = [pobs EXCEPT !.executed = @ \cup {plocal[EntryT].driver}]
        /\ Returned(plocal[EntryT].call, "OK")
        /\ Leave(EntryT)
        /\ UNCHANGED <<state_, ptrVars, maintenance_ops_, lockVars, trackerVars,
                       pcrashed, driverFrame>>

\* The status the completion callback is given.
CompletionStatus_Aborted(st) == "Aborted"
CompletionStatus(st) == st

\* The failure branch of Submit, WriteAsync and StartExecution: Submit
\* finishes the operation as ABORTED, all three complete the callback with
\* the status, and return.
EntryComplete ==
  /\ ~pcrashed
  /\ ppc[EntryT] = "Complete"
  /\ pret' = [call |-> plocal[EntryT].call,
               status |-> plocal[EntryT].status,
               callbacks |-> << CompletionStatus(plocal[EntryT].status) >>,
               finished |-> (plocal[EntryT].call = "Submit")]
  /\ Leave(EntryT)
  /\ UNCHANGED <<pobs, state_, ptrVars, maintenance_ops_, lockVars, trackerVars,
                 pcrashed, driverFrame>>

\* ------------------------------------------- the drivers, seen from the peer
\* OperationDriver::HandleConsensusAppend: consensus gives a driver that
\* Init left without an op-id (one with an operation) its op-id.
PeerHandleConsensusAppend(d) ==
  /\ ~pcrashed
  /\ NotReturned
  /\ d \in operation_tracker_
  /\ d \in pobs.executed
  /\ pobs.kind[d] \in {"leader", "replica"}
  /\ driverOpId[d] = 0
  /\ driverOpId' = [driverOpId EXCEPT ![d] = NextOpIndex]
  /\ pobs' = [pobs EXCEPT !.lastAssigned = NextOpIndex]
  /\ UNCHANGED <<state_, ptrVars, maintenance_ops_, lockVars, operation_tracker_,
                 logLatest, ppc, plocal, pcrashed, driverFrame>>

\* The log writes the next entry consensus has handed out.
LogAppend ==
  /\ ~pcrashed
  /\ NotReturned
  /\ log_
  /\ pobs.logClose = 0
  /\ logLatest < pobs.lastAssigned
  /\ logLatest' = logLatest + 1
  /\ UNCHANGED <<state_, ptrVars, maintenance_ops_, lockVars, operation_tracker_,
                 driverOpId, ppc, plocal, pobs, pcrashed, driverFrame>>

\* OperationTracker::Release: a driver that was executed finishes (applied
\* or aborted) and leaves the tracker.
DriverRelease(d) ==
  /\ ~pcrashed
  /\ NotReturned
  /\ d \in operation_tracker_
  /\ d \in pobs.executed
  /\ operation_tracker_' = operation_tracker_ \ {d}
  /\ driverOpId' = [driverOpId EXCEPT ![d] = 0]
  /\ pobs' = [pobs EXCEPT !.kind[d] = "none", !.executed = @ \ {d}]
  /\ UNCHANGED <<state_, ptrVars, maintenance_ops_, lockVars, logLatest,
                 ppc, plocal, pcrashed, driverFrame>>

\* OperationDriver::HandleFailure on a driver in flight, seen from the
\* peer: the replication state the driver is in decides between Aborted with
\* the Release from the tracker and LOG(FATAL).
DriverHandleFailure(d) ==
  /\ ~pcrashed
  /\ NotReturned
  /\ d \in operation_tracker_
  /\ d \in pobs.executed
  /\ \E repl_state \in ReplicationState :
       IF HandleFailureAborts(repl_state)
       THEN /\ operation_tracker_' = operation_tracker_ \ {d}
            /\ driverOpId' = [driverOpId EXCEPT ![d] = 0]
            /\ pobs' = [pobs EXCEPT !.kind[d] = "none", !.executed = @ \ {d}]
            /\ UNCHANGED pcrashed
       ELSE /\ pcrashed' = TRUE
            /\ UNCHANGED <<operation_tracker_, driverOpId, pobs>>
  /\ UNCHANGED <<state_, ptrVars, maintenance_ops_, lockVars, logLatest,
                 ppc, plocal, driverFrame>>

\* ------------------------------------------------- TabletPeer::RunLogGC
Min(a, b) == IF a <= b THEN a ELSE b

\* The log GC maintenance op runs: CheckRunning.
RunLogGC ==
  /\ ~pcrashed
  /\ ppc[GCT] = "idle"
  /\ maintenance_ops_
  /\ IF CheckRunning(state_) = "OK"
     THEN /\ plocal' = Enter(GCT, "RunLogGC")
          /\ PGoto(GCT, "GC_latest")
          /\ NotReturned
     ELSE /\ Returned("RunLogGC", "OK")
          /\ UNCHANGED <<ppc, plocal>>
  /\ UNCHANGED <<pobs, state_, ptrVars, maintenance_ops_, lockVars, trackerVars,
                 pcrashed, driverFrame>>

\* GetEarliestNeededLogIndex: *min_index = log_->GetLatestEntryOpId().index,
\* and nothing more when the log was never written.
GetEarliestNeededLogIndexLatest ==
  /\ ~pcrashed
  /\ NotReturned
  /\ ppc[GCT] = "GC_latest"
  /\ plocal' = [plocal EXCEPT ![GCT].min_index = logLatest]
  /\ PGoto(GCT, IF logLatest = 0 THEN "GC_gc" ELSE "GC_tracker")
  /\ UNCHANGED <<state_, ptrVars, maintenance_ops_, lockVars, trackerVars, pobs,
                 pcrashed, driverFrame>>

\* operation_tracker_.GetPendingOperations()
GetEarliestNeededLogIndexPending ==
  /\ ~pcrashed
  /\ NotReturned
  /\ ppc[GCT] = "GC_tracker"
  /\ plocal' = [plocal EXCEPT ![GCT].pending = operation_tracker_]
  /\ PGoto(GCT, "GC_opids")
  /\ UNCHANGED <<state_, ptrVars, maintenance_ops_, lockVars, trackerVars, pobs,
                 pcrashed, driverFrame>>

\* The loop over the pending drivers: the minimum with every initialized
\* op-id.
RECURSIVE TrackerBound_Uninitialized(_, _, _)
TrackerBound_Uninitialized(min_index, pending, opid) ==
  IF pending = {} THEN min_index
  ELSE LET d == CHOOSE x \in pending : TRUE IN
       TrackerBound_Uninitialized(
         IF opid[d] = 0 THEN Min(min_index, opid[d]) ELSE min_index,
         pending \ {d}, opid)
RECURSIVE TrackerBound(_, _, _)
TrackerBound(min_index, pending, opid) ==
  IF pending = {} THEN min_index
  ELSE LET d == CHOOSE x \in pending : TRUE IN
       TrackerBound(
         IF opid[d] # 0 THEN Min(min_index, opid[d]) ELSE min_index,
         pending \ {d}, opid)

\* The op-ids of the pending drivers are read.  The other sources (the
\* anchor registry, read before the tracker; the transaction coordinator,
\* the persistent op-ids and the committed op-id of consensus, read after
\* it) can each only lower the bound, by any amount; MaxPersistentOpId or
\* GetLastOpId may fail, and then no GC is made.
GetEarliestNeededLogIndexOpIds ==
  /\ ~pcrashed
  /\ ppc[GCT] = "GC_opids"
  /\ LET bound == TrackerBound(plocal[GCT].min_index, plocal[GCT].pending, driverOpId) IN
     \/ /\ \E other \in 0..bound :
             plocal' = [plocal EXCEPT ![GCT].min_index = Min(bound, other),
                                      ![GCT].pending = {}]
        /\ PGoto(GCT, "GC_gc")
        /\ NotReturned
     \/ /\ Returned("RunLogGC", "Error")
        /\ Leave(GCT)
  /\ UNCHANGED <<pobs, state_, ptrVars, maintenance_ops_, lockVars, trackerVars,
                 pcrashed, driverFrame>>

\* log_->GC(min_log_index, &num_gced)
LogGC ==
  /\ ~pcrashed
  /\ ppc[GCT] = "GC_gc"
  /\ Returned("RunLogGC", "OK")
  /\ Leave(GCT)
  /\ UNCHANGED <<pobs, state_, ptrVars, maintenance_ops_, lockVars, trackerVars,
                 pcrashed, driverFrame>>

\* ------------------------- TabletPeer::GetEarliestNeededLogIndex, as a whole
\* Log indexes; index 0 is the index of the empty op-id.
LogIndexes == 0..MaxOpIndex

\* The answers of the sources read before the tracker and right after it:
\* the anchor registry (OK with the earliest anchor, or NotFound) and the
\* transaction coordinator (if the tablet has one).  A field that is not
\* read keeps 0.
EarlySources ==
  { s \in [anchor_status : {"OK", "NotFound"}, min_anchor_index : LogIndexes,
           has_coordinator : BOOLEAN, prepare_gc : LogIndexes] :
      /\ s.anchor_status = "NotFound" => s.min_anchor_index = 0
      /\ ~s.has_coordinator => s.prepare_gc = 0 }

\* The answers of the sources read last: the table type,
\* last_committed_write_index, MaxPersistentOpId (regular and intents
\* op-id, or an error) and the committed op-id of consensus (OK, NotFound
\* or another error).
LateSources ==
  { s \in [transaction_status_table : BOOLEAN,
           last_committed_write_index : LogIndexes,
           persistent_status : {"OK", "Error"},
           regular : LogIndexes, intents : LogIndexes,
           committed_status : {"OK", "NotFound", "Error"},
           committed_index : LogIndexes] :
      /\ s.transaction_status_table =>
           s.persistent_status = "OK" /\ s.last_committed_write_index = 0
      /\ (s.transaction_status_table \/ s.persistent_status = "Error") =>
           s.regular = 0 /\ s.intents = 0
      /\ s.committed_status # "OK" => s.committed_index = 0 }

\* The answers of all the sources of one call.
Answers(early, late) ==
  [anchor_status |-> early.anchor_status,
   min_anchor_index |-> early.min_anchor_index,
   has_coordinator |-> early.has_coordinator,
   prepare_gc |-> early.prepare_gc,
   transaction_status_table |-> late.transaction_status_table,
   last_committed_write_index |-> late.last_committed_write_index,
   persistent_status |-> late.persistent_status,
   regular |-> late.regular, intents |-> late.intents,
   committed_status |-> late.committed_status,
   committed_index |-> late.committed_index]

\* The anchor registry: the minimum with the earliest anchor, if there is one.
AnchorBound(min_index, src) ==
  IF src.anchor_status = "OK" THEN Min(min_index, src.min_anchor_index)
  ELSE min_index

\* transaction_coordinator->PrepareGC(), if the tablet has a coordinator.
CoordinatorBound(min_index, src) ==
  IF src.has_coordinator THEN Min(min_index, src.prepare_gc) ELSE min_index

\* Variant: the intents op-id is not looked at.
MaxPersistentIndex_Regular(src) == src.regular

\* max_persistent_index: the regular index, or the intents index when the
\* intents op-id is set and below the regular one.
MaxPersistentIndex(src) ==
  IF src.intents # 0 /\ src.intents < src.regular THEN src.intents
  ELSE src.regular

\* The persistent index counts only when writes were committed after it.
PersistentBound(min_index, src) ==
  IF MaxPersistentIndex(src) < src.last_committed_write_index
  THEN Min(min_index, MaxPersistentIndex(src))
  ELSE min_index

\* The committed op-id of consensus, unless consensus answers NotFound.
CommittedBound(min_index, src) ==
  IF src.committed_status = "OK" THEN Min(min_index, src.committed_index)
  ELSE min_index

\* The call from its first line to its return: the status, the value left
\* in *min_index and the sources that were read.
EarliestNeededLogIndex(latest, pending, opid, src) ==
  IF latest = 0
  THEN [status |-> "OK", min_index |-> 0, consulted |-> {"log"}]
  ELSE
    LET anchored == AnchorBound(latest, src)
        tracked == TrackerBound(anchored, pending, opid)
        coordinated == CoordinatorBound(tracked, src)
        read == {"log", "anchors", "tracker", "coordinator"}
    IN
    IF ~src.transaction_status_table /\ src.persistent_status # "OK"
    THEN [status |-> "Error", min_index |-> coordinated,
          consulted |-> read \cup {"persistent"}]
    ELSE
      LET persisted == IF src.transaction_status_table THEN coordinated
                       ELSE PersistentBound(coordinated, src)
          read2 == IF src.transaction_status_table THEN read
                   ELSE read \cup {"persistent"}
      IN
      IF src.committed_status = "Error"
      THEN [status |-> "Error", min_index |-> persisted,
            consulted |-> read2 \cup {"committed"}]
      ELSE [status |-> "OK", min_index |-> CommittedBound(persisted, src),
            consulted |-> read2 \cup {"committed"}]

\* One call of GetEarliestNeededLogIndex on the peer as it stands; the
\* answers of the sources read last are those of the moment of the call.
GetEarliestNeededLogIndex ==
  /\ ~pcrashed
  /\ ppc[GCT] = "idle"
  /\ plocal[GCT].call = "none"
  /\ log_
  /\ \E late \in LateSources :
       LET src == Answers(sources, late)
           r == EarliestNeededLogIndex(logLatest, operation_tracker_, driverOpId,
                                       src)
       IN /\ sources' = src
          /\ plocal' = [plocal EXCEPT ![GCT].call = "GetEarliestNeededLogIndex",
                                      ![GCT].status = r.status,
                                      ![GCT].min_index = r.min_index]
          /\ pobs' = [pobs EXCEPT !.consulted = r.consulted]
          /\ Returned("GetEarliestNeededLogIndex", r.status)
  /\ UNCHANGED <<state_, ptrVars, maintenance_ops_, lockVars, trackerVars, ppc,
                 pcrashed, driverVars, ndebug, builtBy, term, argOperation, opTypes,
                 threadVars, obs, inTracker, inPreparer, initResult, crashed>>

\* A running peer on which GetEarliestNeededLogIndex is about to be called:
\* any log, any drivers in the tracker (in the order of their op-ids, a
\* driver outside the tracker first), any anchor and coordinator.
TrackerKey(tracker, opid, d) == IF d \in tracker THEN opid[d] + 1 ELSE 0

\* A peer that was started and runs, around the tracker and the log it has.
RunningPeer ==
  /\ OperationDriverConstructed
  /\ ndebug = FALSE
  /\ builtBy = "Init"
  /\ term = kUnknownTerm
  /\ argOperation = FALSE
  /\ opStateOpId = InvalidOpId
  /\ state_ = RUNNING
  /\ tablet_ = TRUE
  /\ log_ = TRUE
  /\ log_atomic_ = TRUE
  /\ consensus_ = TRUE
  /\ has_consensus_ = TRUE
  /\ prepare_thread_ = TRUE
  /\ maintenance_ops_ = FALSE
  /\ lock_ = NoThread
  /\ state_change_lock_ = NoThread
  /\ ppc = [t \in PeerThreads |-> "idle"]
  /\ plocal = [t \in PeerThreads |-> NoLocals]
  /\ pobs = [seq |-> [t \in ShutdownCallers |-> << >>],
             shutdownRequested |-> FALSE, setFailed |-> FALSE,
             registered |-> FALSE, consensusCreated |-> TRUE, markDirty |-> 1,
             consensusShutdown |-> 0, preparerStop |-> 0, logClose |-> 0,
             tabletShutdown |-> 0, unregister |-> 0,
             created |-> Cardinality(operation_tracker_),
             kind |-> [d \in DriverIds |->
                         IF d \in operation_tracker_ THEN "leader" ELSE "none"],
             executed |-> operation_tracker_, lastAssigned |-> logLatest,
             consulted |-> {}]
  /\ pret = NoReturn
  /\ pcrashed = FALSE

EarliestIndexInit ==
  /\ logLatest \in LogIndexes
  /\ operation_tracker_ \in SUBSET DriverIds
  /\ driverOpId \in [DriverIds -> LogIndexes]
  /\ \A d \in DriverIds : d \notin operation_tracker_ => driverOpId[d] = 0
  /\ \A d, e \in DriverIds :
       d < e => TrackerKey(operation_tracker_, driverOpId, d)
                  <= TrackerKey(operation_tracker_, driverOpId, e)
  /\ \E early \in EarlySources : sources = Answers(early, NoSources)
  /\ opTypes = NoOpTypes
  /\ RunningPeer

EarliestIndexNext == GetEarliestNeededLogIndex

EarliestIndexSpec == EarliestIndexInit /\ [][EarliestIndexNext]_vars

\* --------------------------------------------------- operation types
OperationType == {"kWrite", "kAlterSchema", "kUpdateTransaction", "kSnapshot",
                  "kTruncate", "kEmpty"}
WireOperationType == {"WRITE_OP", "ALTER_SCHEMA_OP", "UPDATE_TRANSACTION_OP",
                      "SNAPSHOT_OP", "TRUNCATE_OP", "UNKNOWN_OP", "NO_OP",
                      "CHANGE_CONFIG_OP"}

\* MapOperationTypeToPB: the switch; kEmpty is LOG(FATAL).
MapOperationTypeToPB(operation_type) ==
  CASE operation_type = "kWrite" -> "WRITE_OP"
    [] operation_type = "kAlterSchema" -> "ALTER_SCHEMA_OP"
    [] operation_type = "kUpdateTransaction" -> "UPDATE_TRANSACTION_OP"
    [] operation_type = "kSnapshot" -> "SNAPSHOT_OP"
    [] operation_type = "kTruncate" -> "TRUNCATE_OP"
    [] OTHER -> "FATAL"

\* CreateOperation: the type of the operation the switch builds for a
\* replicate message (WriteOperation, AlterSchemaOperation,
\* UpdateTxnOperation, TruncateOperation); every other case is
\* FATAL_INVALID_ENUM_VALUE.
CreateOperation(op_type) ==
  CASE op_type = "WRITE_OP" -> "kWrite"
    [] op_type = "ALTER_SCHEMA_OP" -> "kAlterSchema"
    [] op_type = "UPDATE_TRANSACTION_OP" -> "kUpdateTransaction"
    [] op_type = "TRUNCATE_OP" -> "kTruncate"
    [] OTHER -> "FATAL"

\* GetInFlightOperations: every pending driver that has a state and is not
\* Empty is reported with the wire value of its type.
GetInFlightOperations ==
  /\ ~pcrashed
  /\ NotReturned
  /\ ~opTypes.listed
  /\ opTypes' = [opTypes EXCEPT
       !.listed = TRUE,
       !.reported = [d \in DriverIds |->
                       IF d \in operation_tracker_
                          /\ opTypes.type[d] \notin {"none", "kEmpty"}
                       THEN MapOperationTypeToPB(opTypes.type[d])
                       ELSE "none"]]
  /\ UNCHANGED <<peerVars, driverVars, ndebug, builtBy, term, argOperation, sources,
                 threadVars, obs, inTracker, inPreparer, initResult, crashed>>

\* StartReplicaOperation on a running peer: CreateOperation on the replicate
\* message of the round consensus hands over.
ReplicaCreateOperation ==
  /\ ~pcrashed
  /\ opTypes.msg = "none"
  /\ StartReplicaOperationAccepts(state_)
  /\ \E op_type \in WireOperationType :
       LET built == CreateOperation(op_type) IN
       /\ opTypes' = [opTypes EXCEPT
                        !.msg = op_type,
                        !.created = IF built = "FATAL" THEN "none" ELSE built]
       /\ pcrashed' = (built = "FATAL")
       /\ ppc' = IF built = "FATAL"
                 THEN [ppc EXCEPT ![EntryT] = "FATAL_CreateOperation"] ELSE ppc
  /\ UNCHANGED <<state_, ptrVars, maintenance_ops_, lockVars, trackerVars, plocal,
                 pobs, pret, driverVars, ndebug, builtBy, term, argOperation, sources,
                 threadVars, obs, inTracker, inPreparer, initResult, crashed>>

\* A running peer whose tracker holds drivers of any types (a driver with
\* "none" has no operation state), before any report and any message.
OpTypeInit ==
  /\ logLatest = 0
  /\ operation_tracker_ \in SUBSET DriverIds
  /\ driverOpId = [d \in DriverIds |-> 0]
  /\ sources = NoSources
  /\ \E types \in [DriverIds -> OperationType \cup {"none"}] :
       /\ \A d \in DriverIds : d \notin operation_tracker_ => types[d] = "none"
       /\ opTypes = [NoOpTypes EXCEPT !.type = types]
  /\ RunningPeer

OpTypeNext ==
  \/ GetInFlightOperations
  \/ ReplicaCreateOperation

OpTypeSpec == OpTypeInit /\ [][OpTypeNext]_vars

\* -------------------------------------------------- peer specifications
\* The peer is followed in three specifications over the same actions, each
\* scheduling the threads its properties are about.

\* The threads that drive the lifecycle: start-up, SetFailed and the
\* concurrent callers of Shutdown.
LifecycleNext ==
  \/ SetBootstrapping
  \/ InitTabletPeerLock
  \/ InitTabletPeerConsensus
  \/ InitTabletPeerStart
  \/ StartConsensus
  \/ StartUpdateState
  \/ StartMarkDirty
  \/ RegisterMaintenanceOpsCheck
  \/ RegisterMaintenanceOpsRegister
  \/ SetFailed
  \/ \E t \in ShutdownCallers : StartShutdownCheckTablet(t)
  \/ \E t \in ShutdownCallers : StartShutdownSetFlag(t)
  \/ \E t \in ShutdownCallers : StartShutdownCAS(t)
  \/ \E t \in ShutdownCallers : StartShutdownUnregister(t)
  \/ \E t \in ShutdownCallers : StartShutdownConsensus(t)
  \/ \E t \in ShutdownCallers : CompleteShutdownWait(t)
  \/ \E t \in ShutdownCallers : CompleteShutdownPreparer(t)
  \/ \E t \in ShutdownCallers : CompleteShutdownLog(t)
  \/ \E t \in ShutdownCallers : CompleteShutdownTablet(t)
  \/ \E t \in ShutdownCallers : CompleteShutdownReset(t)
  \/ \E t \in ShutdownCallers : CompleteShutdownStore(t)
  \/ \E t \in ShutdownCallers : WaitUntilShutdown(t)

LifecycleSpec == PeerInit /\ [][LifecycleNext]_vars

\* The submission entry points and the drivers they create, against
\* start-up, SetFailed and one caller of Shutdown.
FirstCaller == <<"shutdown", 1>>

SubmitNext ==
  \/ SetBootstrapping
  \/ InitTabletPeerLock
  \/ InitTabletPeerConsensus
  \/ InitTabletPeerStart
  \/ StartConsensus
  \/ StartUpdateState
  \/ StartMarkDirty
  \/ SetFailed
  \/ StartShutdownCheckTablet(FirstCaller)
  \/ StartShutdownSetFlag(FirstCaller)
  \/ StartShutdownCAS(FirstCaller)
  \/ StartShutdownUnregister(FirstCaller)
  \/ StartShutdownConsensus(FirstCaller)
  \/ CompleteShutdownWait(FirstCaller)
  \/ CompleteShutdownPreparer(FirstCaller)
  \/ CompleteShutdownLog(FirstCaller)
  \/ CompleteShutdownTablet(FirstCaller)
  \/ CompleteShutdownReset(FirstCaller)
  \/ CompleteShutdownStore(FirstCaller)
  \/ LeaderEntry
  \/ WriteAsyncAcquire
  \/ StartReplicaOperationCheck
  \/ StartReplicaOperationBuild
  \/ PeerSetPropagatedSafeTime
  \/ NewOperationDriver
  \/ EntryExecuteAsync
  \/ EntryComplete
  \/ \E d \in DriverIds : DriverRelease(d)

SubmitSpec == PeerInit /\ [][SubmitNext]_vars

\* The log GC maintenance op against start-up, the entry points, the
\* drivers and the log.
LogGCNext ==
  \/ SetBootstrapping
  \/ InitTabletPeerLock
  \/ InitTabletPeerConsensus
  \/ InitTabletPeerStart
  \/ StartConsensus
  \/ StartUpdateState
  \/ StartMarkDirty
  \/ RegisterMaintenanceOpsCheck
  \/ RegisterMaintenanceOpsRegister
  \/ LeaderEntry
  \/ WriteAsyncAcquire
  \/ StartReplicaOperationCheck
  \/ StartReplicaOperationBuild
  \/ PeerSetPropagatedSafeTime
  \/ NewOperationDriver
  \/ EntryExecuteAsync
  \/ EntryComplete
  \/ \E d \in DriverIds : PeerHandleConsensusAppend(d)
  \/ LogAppend
  \/ \E d \in DriverIds : DriverRelease(d)
  \/ RunLogGC
  \/ GetEarliestNeededLogIndexLatest
  \/ GetEarliestNeededLogIndexPending
  \/ GetEarliestNeededLogIndexOpIds
  \/ LogGC

LogGCSpec == PeerInit /\ [][LogGCNext]_vars

\* The log GC maintenance op against SetFailed and one caller of Shutdown,
\* with the replica operations that make the log grow.
ShutdownGCNext ==
  \/ SetBootstrapping
  \/ InitTabletPeerLock
  \/ InitTabletPeerConsensus
  \/ InitTabletPeerStart
  \/ StartConsensus
  \/ StartUpdateState
  \/ StartMarkDirty
  \/ RegisterMaintenanceOpsCheck
  \/ RegisterMaintenanceOpsRegister
  \/ SetFailed
  \/ StartShutdownCheckTablet(FirstCaller)
  \/ StartShutdownSetFlag(FirstCaller)
  \/ StartShutdownCAS(FirstCaller)
  \/ StartShutdownUnregister(FirstCaller)
  \/ StartShutdownConsensus(FirstCaller)
  \/ CompleteShutdownWait(FirstCaller)
  \/ CompleteShutdownPreparer(FirstCaller)
  \/ CompleteShutdownLog(FirstCaller)
  \/ CompleteShutdownTablet(FirstCaller)
  \/ CompleteShutdownReset(FirstCaller)
  \/ CompleteShutdownStore(FirstCaller)
  \/ StartReplicaOperationCheck
  \/ StartReplicaOperationBuild
  \/ NewOperationDriver
  \/ EntryExecuteAsync
  \/ \E d \in DriverIds : PeerHandleConsensusAppend(d)
  \/ LogAppend
  \/ \E d \in DriverIds : DriverRelease(d)
  \/ RunLogGC
  \/ GetEarliestNeededLogIndexLatest
  \/ GetEarliestNeededLogIndexPending
  \/ GetEarliestNeededLogIndexOpIds
  \/ LogGC

ShutdownGCSpec == PeerInit /\ [][ShutdownGCNext]_vars

\* Shutdown with drivers in flight: the peer as constructed, or a running
\* peer with any set of executed drivers in its tracker, under the callers
\* of Shutdown, RegisterMaintenanceOps, which takes state_change_lock_ as
\* StartShutdown does, SetFailed and the drivers finishing.
ShutdownInit ==
  \/ PeerInit
  \/ /\ operation_tracker_ \in SUBSET DriverIds
     /\ driverOpId = [d \in DriverIds |-> 0]
     /\ logLatest = 0
     /\ sources = NoSources
     /\ opTypes = NoOpTypes
     /\ RunningPeer

\* The steps of a call of Shutdown after its first.
ShutdownStep(t) ==
  \/ StartShutdownSetFlag(t)
  \/ StartShutdownCAS(t)
  \/ StartShutdownUnregister(t)
  \/ StartShutdownConsensus(t)
  \/ CompleteShutdownWait(t)
  \/ CompleteShutdownPreparer(t)
  \/ CompleteShutdownLog(t)
  \/ CompleteShutdownTablet(t)
  \/ CompleteShutdownReset(t)
  \/ CompleteShutdownStore(t)
  \/ WaitUntilShutdown(t)

ShutdownNext ==
  \/ RegisterMaintenanceOpsCheck
  \/ RegisterMaintenanceOpsRegister
  \/ SetFailed
  \/ \E t \in ShutdownCallers : StartShutdownCheckTablet(t)
  \/ \E t \in ShutdownCallers : ShutdownStep(t)
  \/ \E d \in DriverIds : DriverRelease(d)
  \/ \E d \in DriverIds : DriverHandleFailure(d)

ShutdownSpec == ShutdownInit /\ [][ShutdownNext]_vars

\* A thread that is inside a call keeps running, and a caller of Shutdown
\* that waits for a mutex gets it when it is released again and again; when
\* a call is made is left open.  A driver in flight finishes: applied, or
\* aborted by HandleFailure (consensus cancels its pending rounds when it
\* shuts down, and the preparer runs until the tracker has drained).
LifecycleStep == RegisterMaintenanceOpsRegister

DriverFinishes(d) == DriverRelease(d) \/ DriverHandleFailure(d)

ShutdownFairSpec ==
  /\ ShutdownSpec
  /\ WF_vars(LifecycleStep)
  /\ \A t \in ShutdownCallers : SF_vars(ShutdownStep(t))
  /\ \A d \in DriverIds : WF_vars(DriverFinishes(d))

PeerTypeOK ==
  /\ state_ \in TabletStatePB
  /\ operation_tracker_ \subseteq DriverIds
  /\ logLatest \in 0..(MaxDrivers + 1)
  /\ \A d \in DriverIds : driverOpId[d] \in 0..(MaxDrivers + 1)

\* ======================================================================
\* Properties of the tablet peer
\* ======================================================================

\* The place of a logged step in the shutdown sequence.
ShutdownStepRank(event) ==
  CASE event \in {"flag", "no_flag"} -> 1
    [] event = "quiescing" -> 2
    [] event = "unregister" -> 3
    [] event \in {"consensus_shutdown", "no_consensus"} -> 4
    [] event = "tracker_empty" -> 5
    [] event \in {"preparer_stop", "no_preparer"} -> 6
    [] event \in {"log_close", "no_log"} -> 7
    [] event \in {"tablet_shutdown", "no_tablet"} -> 8
    [] event = "refs_dropped" -> 9
    [] event = "shutdown" -> 10

\* A caller owns the shutdown once it has made the change to QUIESCING.
OwnsShutdown(t) == Len(pobs.seq[t]) >= 2

\* C11: the caller that owns the shutdown makes its steps in the listed
\* order - flag, QUIESCING, maintenance ops unregistered, consensus shut
\* down, tracker drained, preparer stopped, log closed, tablet shut down,
\* references dropped, SHUTDOWN - and the state is SHUTDOWN only when an
\* owner has made all ten and no owner is still inside the sequence.
ShutdownStepsInOrder ==
  /\ \A t \in ShutdownCallers :
       \A i \in 1..Len(pobs.seq[t]) : ShutdownStepRank(pobs.seq[t][i]) = i
  /\ state_ = SHUTDOWN =>
       /\ \E t \in ShutdownCallers : Len(pobs.seq[t]) = 10
       /\ \A t \in ShutdownCallers : OwnsShutdown(t) => Len(pobs.seq[t]) = 10

\* A running peer was shut down: every step acted on an installed component.
ShutdownStepsInOrderWitness ==
  /\ state_ = SHUTDOWN
  /\ \E t \in ShutdownCallers :
       pobs.seq[t] = <<"flag", "quiescing", "unregister", "consensus_shutdown",
                       "tracker_empty", "preparer_stop", "log_close",
                       "tablet_shutdown", "refs_dropped", "shutdown">>
  /\ pobs.markDirty = 1

\* C12: among the callers of Shutdown at most one makes the change to
\* QUIESCING and runs the sequence, so consensus shutdown, preparer stop,
\* log close and tablet shutdown happen at most once each; a caller has
\* returned only when the state is SHUTDOWN and one caller made the
\* sequence.
ShutdownIdempotent ==
  /\ Cardinality({t \in ShutdownCallers : OwnsShutdown(t)}) <= 1
  /\ pobs.consensusShutdown <= 1
  /\ pobs.preparerStop <= 1
  /\ pobs.logClose <= 1
  /\ pobs.tabletShutdown <= 1
  /\ \A t \in ShutdownCallers :
       ppc[t] = "returned" =>
         /\ state_ = SHUTDOWN
         /\ Cardinality({u \in ShutdownCallers : Len(pobs.seq[u]) = 10}) = 1

\* Two callers have returned from the shutdown of a running peer: one made
\* the sequence, the other made none of it.
ShutdownIdempotentWitness ==
  /\ \E t, u \in ShutdownCallers :
       /\ ppc[t] = "returned" /\ OwnsShutdown(t)
       /\ ppc[u] = "returned" /\ pobs.seq[u] = << >>
  /\ pobs.consensusShutdown = 1
  /\ pobs.preparerStop = 1
  /\ pobs.logClose = 1
  /\ pobs.tabletShutdown = 1

\* C13: once a call of Shutdown has returned, the operation tracker holds no
\* pending driver, whatever the submission entry points do meanwhile.
TrackerEmptyAfterShutdown ==
  (\E t \in ShutdownCallers : ppc[t] = "returned") => operation_tracker_ = {}

\* The states the specification does not call terminal.
NonTerminal == {NOT_STARTED, BOOTSTRAPPING, RUNNING, QUIESCING}

\* C14, as stated: every change of state_ is NOT_STARTED -> BOOTSTRAPPING,
\* BOOTSTRAPPING -> RUNNING, RUNNING -> QUIESCING, QUIESCING -> SHUTDOWN or
\* non-terminal -> FAILED; QUIESCING is entered only from RUNNING and FAILED
\* is never left.
StateChangesAsListed ==
  [][state_' # state_ =>
       \/ <<state_, state_'>> \in {<<NOT_STARTED, BOOTSTRAPPING>>,
                                   <<BOOTSTRAPPING, RUNNING>>,
                                   <<RUNNING, QUIESCING>>,
                                   <<QUIESCING, SHUTDOWN>>}
       \/ state_ \in NonTerminal /\ state_' = FAILED]_vars

\* C14, amended: every change of state_ is NOT_STARTED -> BOOTSTRAPPING,
\* BOOTSTRAPPING -> RUNNING, QUIESCING -> SHUTDOWN, non-terminal -> FAILED,
\* or a change to QUIESCING from any state other than QUIESCING and
\* SHUTDOWN; SHUTDOWN is never left and FAILED is left only for QUIESCING.
StateChangesOfTheCode ==
  [][state_' # state_ =>
       \/ <<state_, state_'>> \in {<<NOT_STARTED, BOOTSTRAPPING>>,
                                   <<BOOTSTRAPPING, RUNNING>>,
                                   <<QUIESCING, SHUTDOWN>>}
       \/ state_ \in NonTerminal /\ state_' = FAILED
       \/ state_ \notin {QUIESCING, SHUTDOWN} /\ state_' = QUIESCING]_vars

\* A peer on which SetFailed was called and that never came to run was shut
\* down: the change to QUIESCING was not made from RUNNING.
StateChangesOfTheCodeWitness ==
  /\ state_ = SHUTDOWN
  /\ pobs.setFailed
  /\ pobs.markDirty = 0
  /\ ppc[LifeT] = "idle"

\* C15: a call of InitTabletPeer that finds a state other than BOOTSTRAPPING
\* returns IllegalState at once and installs nothing: tablet_, log_,
\* log_atomic_, consensus_, has_consensus_, prepare_thread_ and state_ are
\* as they were.
InitTabletPeerOnlyWhenBootstrapping ==
  [][(/\ ppc[LifeT] = "idle"
      /\ state_ # BOOTSTRAPPING
      /\ \/ pret'.call = "InitTabletPeer"
         \/ ppc'[LifeT] = "ITP_consensus")
     => /\ pret'.call = "InitTabletPeer"
        /\ pret'.status = "IllegalState"
        /\ ppc'[LifeT] = "idle"
        /\ UNCHANGED <<tablet_, log_, log_atomic_, consensus_, has_consensus_,
                       prepare_thread_, state_>>]_vars

\* InitTabletPeer has just returned IllegalState on a peer that is not
\* bootstrapping, and nothing is installed.
InitTabletPeerOnlyWhenBootstrappingWitness ==
  /\ pret.call = "InitTabletPeer"
  /\ pret.status = "IllegalState"
  /\ state_ = NOT_STARTED
  /\ ~tablet_ /\ ~log_ /\ ~log_atomic_
  /\ ~consensus_ /\ ~has_consensus_ /\ ~prepare_thread_

\* C16: Start moves the peer to RUNNING only from BOOTSTRAPPING and runs
\* the mark-dirty callback once, after that change; a Start that finds
\* another state returns an IllegalState error - it does not abort the
\* process - and changes neither state_ nor the count of mark-dirty calls.
StartOnlyWhenBootstrapping ==
  [][/\ (state_' = RUNNING /\ state_ # RUNNING) =>
          (state_ = BOOTSTRAPPING /\ ppc[LifeT] = "S_update")
     /\ state_ # BOOTSTRAPPING => ppc'[LifeT] # "SEGV_Start"
     /\ pobs'.markDirty # pobs.markDirty =>
          /\ pobs'.markDirty = 1
          /\ ppc[LifeT] = "S_dirty"
          /\ pret'.call = "Start" /\ pret'.status = "OK"
     /\ (ppc[LifeT] = "S_update" /\ ppc'[LifeT] # "S_update"
           /\ state_ # BOOTSTRAPPING) =>
          /\ pret'.call = "Start"
          /\ pret'.status = "IllegalState"
          /\ UNCHANGED state_
          /\ pobs'.markDirty = pobs.markDirty]_vars

\* C17: every leader entry point - Submit (and SubmitUpdateTransaction
\* through it), WriteAsync, StartExecution - that is called while the state
\* is not RUNNING takes its failure branch: it goes on to no driver, and a
\* driver is created, added to the tracker or submitted to the preparer
\* only by a call that went on.
LeaderEntryValidatesRunning ==
  [][/\ (/\ ppc[EntryT] = "idle"
          /\ ppc'[EntryT] # "idle"
          /\ plocal'[EntryT].call \in LeaderCalls
          /\ state_ # RUNNING)
         => ppc'[EntryT] = "Complete"
     /\ (\/ pobs'.created # pobs.created
         \/ operation_tracker_' \ operation_tracker_ # {}
         \/ pobs'.executed \ pobs.executed # {})
         => ppc[EntryT] \in {"NewOperationDriver", "ExecuteAsync"}]_vars

\* C18, as stated: a leader submission that fails before ExecuteAsync - the
\* peer is not RUNNING, or the tracker refuses the driver - completes the
\* callback once, with a status of kind Aborted, and does not execute a
\* driver.
LeaderFailureCompletesAborted ==
  [][(pret'.call \in LeaderCalls /\ pret'.status # "OK") =>
       /\ pret'.callbacks = << "Aborted" >>
       /\ pobs'.executed = pobs.executed]_vars

\* C18, amended: a leader submission that fails before ExecuteAsync
\* completes the callback once, with the status of the failure itself -
\* IllegalState from CheckRunning, or the status of the tracker's refusal -
\* and does not execute a driver; only Submit also finishes the operation
\* as ABORTED.  A submission that does not fail completes no callback.
LeaderFailureCompletesWithStatus ==
  [][pret'.call \in LeaderCalls =>
       IF pret'.status = "OK"
       THEN /\ pret'.callbacks = << >>
            /\ pobs'.executed # pobs.executed
       ELSE /\ pret'.status \in {"IllegalState", "TrackerRejected"}
            /\ pret'.callbacks = << pret'.status >>
            /\ pret'.finished = (pret'.call = "Submit")
            /\ pobs'.executed = pobs.executed]_vars

\* Submit on a running peer has just failed on the tracker's refusal: the
\* callback was completed with that status.
LeaderFailureCompletesWithStatusWitness ==
  /\ pret.call = "Submit"
  /\ pret.status = "TrackerRejected"
  /\ pret.callbacks = << "TrackerRejected" >>
  /\ pret.finished
  /\ state_ = RUNNING

\* C19: a call of StartReplicaOperation that finds a state other than
\* RUNNING and BOOTSTRAPPING returns IllegalState at once: it does not go
\* on to build the operation (clock and monotonic counter untouched), and
\* no driver is created, registered with the tracker or executed.
StartReplicaOperationOnlyWhenRunningOrBootstrapping ==
  [][(/\ ppc[EntryT] = "idle"
      /\ state_ \notin {RUNNING, BOOTSTRAPPING}
      /\ \/ pret'.call = "StartReplicaOperation"
         \/ ppc'[EntryT] = "SRO_build")
     => /\ pret'.call = "StartReplicaOperation"
        /\ pret'.status = "IllegalState"
        /\ ppc'[EntryT] = "idle"
        /\ UNCHANGED <<operation_tracker_, driverOpId, pobs, plocal>>]_vars

\* StartReplicaOperation has just returned IllegalState on a peer that is
\* shutting down with a driver still pending.
StartReplicaOperationOnlyWhenRunningOrBootstrappingWitness ==
  /\ pret.call = "StartReplicaOperation"
  /\ pret.status = "IllegalState"
  /\ state_ = QUIESCING
  /\ operation_tracker_ # {}

\* C20: the index GetEarliestNeededLogIndex has returned to RunLogGC is at
\* most the published op-id index of every driver that is in the tracker
\* with an initialized op-id, for as long as log_->GC works with it.
EarliestNeededLogIndexBound ==
  ppc[GCT] = "GC_gc" =>
    \A d \in operation_tracker_ :
      driverOpId[d] # 0 => plocal[GCT].min_index <= driverOpId[d]

\* The log is ahead of a pending driver's op-id and the returned index is
\* that driver's.
EarliestNeededLogIndexBoundWitness ==
  /\ ppc[GCT] = "GC_gc"
  /\ \E d \in operation_tracker_ :
       /\ driverOpId[d] # 0
       /\ driverOpId[d] < logLatest
       /\ plocal[GCT].min_index = driverOpId[d]

\* The least element of a non-empty set of indexes.
LeastOf(S) == CHOOSE m \in S : \A x \in S : m <= x

\* The indexes the log GC bound is the minimum of: the latest log index,
\* the earliest anchor if one is registered, the published index of every
\* driver in the tracker, the PrepareGC index if there is a coordinator, the
\* committed index unless consensus answers NotFound and, for a table that
\* is not a transaction status table, the smaller of the regular and the
\* intents persistent index when it is below last_committed_write_index.
NeededLogIndexes ==
  LET smaller == IF sources.intents # 0
                 THEN Min(sources.regular, sources.intents)
                 ELSE sources.regular
  IN {logLatest}
     \cup (IF sources.anchor_status = "OK" THEN {sources.min_anchor_index} ELSE {})
     \cup {driverOpId[d] : d \in {e \in operation_tracker_ : driverOpId[e] # 0}}
     \cup (IF sources.has_coordinator THEN {sources.prepare_gc} ELSE {})
     \cup (IF sources.committed_status # "NotFound"
           THEN {sources.committed_index} ELSE {})
     \cup (IF ~sources.transaction_status_table
              /\ smaller < sources.last_committed_write_index
           THEN {smaller} ELSE {})

\* C21: GetEarliestNeededLogIndex returns 0, having read nothing but the
\* log, when the latest log index is 0; otherwise the index it returns is
\* exactly the minimum of the latest log index, the earliest anchor (if
\* any), the published index of every tracked driver (if valid), the
\* PrepareGC index (if there is a coordinator), the committed index (unless
\* NotFound) and, for a table that is not a transaction status table and
\* only when it is below last_committed_write_index, the smaller of the
\* regular and intents persistent indexes.
EarliestNeededLogIndexIsMinimum ==
  plocal[GCT].call = "GetEarliestNeededLogIndex" =>
    /\ logLatest = 0 =>
         /\ plocal[GCT].status = "OK"
         /\ plocal[GCT].min_index = 0
         /\ pobs.consulted = {"log"}
    /\ (logLatest # 0 /\ plocal[GCT].status = "OK") =>
         plocal[GCT].min_index = LeastOf(NeededLogIndexes)

\* The call returned the intents index: it is set, below the regular index,
\* below last_committed_write_index and below every other source.
EarliestNeededLogIndexIsMinimumWitness ==
  /\ plocal[GCT].call = "GetEarliestNeededLogIndex"
  /\ plocal[GCT].status = "OK"
  /\ logLatest = MaxOpIndex
  /\ operation_tracker_ # {}
  /\ \A d \in operation_tracker_ : driverOpId[d] = MaxOpIndex
  /\ sources.anchor_status = "OK"
  /\ sources.has_coordinator
  /\ sources.committed_status = "OK"
  /\ sources.intents # 0
  /\ sources.intents < sources.regular
  /\ plocal[GCT].min_index = sources.intents
  /\ plocal[GCT].min_index < sources.min_anchor_index
  /\ plocal[GCT].min_index < sources.prepare_gc
  /\ plocal[GCT].min_index < sources.committed_index

\* C22: log_->GC is never called on a closed log: the log is closed only
\* after the log GC op was unregistered, with no run of the op in progress,
\* and a RunLogGC called while the peer is not RUNNING returns OK without
\* computing an index and without calling log_->GC.
LogGCNeverOnClosedLog ==
  [][ /\ (ppc[GCT] = "GC_gc" /\ ppc'[GCT] # "GC_gc") => pobs.logClose = 0
      /\ pobs'.logClose > pobs.logClose =>
           /\ pobs.unregister > 0
           /\ ~maintenance_ops_
           /\ ppc[GCT] = "idle"
      /\ pobs.logClose > 0 => ppc'[GCT] = "idle"
      /\ (ppc[GCT] = "idle" /\ state_ # RUNNING) =>
           /\ ppc'[GCT] = "idle"
           /\ plocal'[GCT] = plocal[GCT]
           /\ pret'.call = "RunLogGC" => pret'.status = "OK"
    ]_vars

\* A run of the op has computed its index and is about to call log_->GC
\* while Shutdown, having moved the peer to QUIESCING, is at
\* UnregisterMaintenanceOps.
LogGCNeverOnClosedLogWitness ==
  /\ ppc[GCT] = "GC_gc"
  /\ plocal[GCT].min_index > 0
  /\ ppc[FirstCaller] = "SS_unregister"
  /\ state_ = QUIESCING

\* ======================================================================
\* Further properties of the driver
\* ======================================================================

\* C23: when the tracker refuses the driver in Init, Init returns the
\* tracker's error, the operation is moved back to the caller (the driver
\* no longer holds it), the driver is not in the tracker and the operation
\* is not notified AddedToFollower.
TrackerRejectionHandsOperationBack ==
  obs.addResult = "error" =>
    /\ initResult = obs.addResult
    /\ ~operation_
    /\ argOperation => obs.movedBack
    /\ ~inTracker
    /\ obs.addedToFollower = 0

\* The tracker refused a follower-mode driver that was given an operation.
TrackerRejectionHandsOperationBackWitness ==
  /\ obs.addResult = "error"
  /\ term = kUnknownTerm
  /\ argOperation
  /\ obs.movedBack
  /\ pc[SubT] = "done"

\* C24: the append callback takes effect at most once per driver: a
\* HandleConsensusAppend on a driver whose op-id is already published (a
\* second append, or a follower-mode driver) fails its CHECK, and neither
\* overwrites the published op-id, nor notifies AddedToLeader, nor calls
\* StartOperation.
AppendAtMostOnce ==
  [][ /\ obs'.addedToLeader <= 1
      /\ (obs'.appendCalls > obs.appendCalls /\ op_id_copy_ # InvalidOpId) =>
           /\ crashed'
           /\ pc'[ConsT] = "CHECK_OpIdNotValid"
           /\ op_id_copy_' = op_id_copy_
           /\ opStateOpId' = opStateOpId
           /\ obs'.addedToLeader = obs.addedToLeader
           /\ obs'.startOperation = obs.startOperation
      /\ crashed => (op_id_copy_' = op_id_copy_ /\ obs' = obs)
    ]_vars

\* A leader-mode driver was appended, notified AddedToLeader once, and a
\* second HandleConsensusAppend with another op-id failed its CHECK.
AppendAtMostOnceWitness ==
  /\ crashed
  /\ pc[ConsT] = "CHECK_OpIdNotValid"
  /\ term # kUnknownTerm
  /\ obs.appendCalls = 2
  /\ obs.addedToLeader = 1
  /\ arg.op_id # op_id_copy_

\* The step in which HandleFailure, called for a failed Prepare, acts on
\* the replication state it read.
PrepareFailureHandled == pc[PrepT] = "HF_switch" /\ pc'[PrepT] # "HF_switch"

\* What the claim lists for a failed Prepare on a driver read as
\* NOT_REPLICATING: Aborted once with the prepare error, the driver
\* released, both axes left as they are.
PrepareFailureAborts ==
  /\ obs'.aborted = obs.aborted + 1
  /\ obs'.abortedStatus = "PrepareError"
  /\ obs'.release = obs.release + 1
  /\ ~inTracker'
  /\ prepare_state_' = NOT_PREPARED
  /\ replication_state_' = replication_state_
  /\ ~crashed'

\* After a failed Prepare was handled: PREPARED is never reached and
\* operation_->Replicated is never invoked.
PrepareFailureIsFinal ==
  (status[PrepT] = "PrepareError" /\ pc[PrepT] \in {"HF_read", "HF_switch", "done"}) =>
    /\ prepare_state_' = NOT_PREPARED
    /\ obs'.replicated = 0
    /\ (pc[PrepT] = "done" /\ repl_state_copy[PrepT] = NOT_REPLICATING) =>
         replication_state_' = NOT_REPLICATING

\* C26 as stated: when operation_->Prepare fails, the operation is aborted
\* if and only if replication has not begun (NOT_REPLICATING), and the
\* failure is fatal for a driver that is REPLICATING or REPLICATED.
PrepareFailureAbortsIffNotReplicating ==
  [][ /\ PrepareFailureHandled =>
           /\ (obs'.aborted > obs.aborted) <=> (repl_state_copy[PrepT] = NOT_REPLICATING)
           /\ repl_state_copy[PrepT] = NOT_REPLICATING => PrepareFailureAborts
           /\ repl_state_copy[PrepT] \in {REPLICATING, REPLICATED} => crashed'
      /\ PrepareFailureIsFinal
    ]_vars

\* C26: when operation_->Prepare fails, the operation is aborted if and only
\* if the replication state HandleFailure reads is NOT_REPLICATING or
\* REPLICATION_FAILED: Aborted is called once with the prepare error, the
\* driver is released from the tracker, prepare_state_ stays NOT_PREPARED,
\* replication_state_ stays what it was and operation_->Replicated is never
\* invoked; read as REPLICATING or REPLICATED, the failure is fatal.
PrepareFailureAbortsUnlessReplicating ==
  [][ /\ PrepareFailureHandled =>
           /\ (obs'.aborted > obs.aborted)
                <=> (repl_state_copy[PrepT] \in {NOT_REPLICATING, REPLICATION_FAILED})
           /\ repl_state_copy[PrepT] \in {NOT_REPLICATING, REPLICATION_FAILED}
                => PrepareFailureAborts
           /\ repl_state_copy[PrepT] \in {REPLICATING, REPLICATED} =>
                crashed' /\ obs' = obs
      /\ PrepareFailureIsFinal
    ]_vars

\* Prepare failed on a leader-mode driver that was still NOT_REPLICATING:
\* the operation was aborted with the prepare error and released.
PrepareFailureAbortsUnlessReplicatingWitness ==
  /\ term # kUnknownTerm
  /\ status[PrepT] = "PrepareError"
  /\ pc[PrepT] = "done"
  /\ repl_state_copy[PrepT] = NOT_REPLICATING
  /\ obs.aborted = 1
  /\ obs.abortedStatus = "PrepareError"
  /\ ~inTracker
  /\ replication_state_ = NOT_REPLICATING
  /\ prepare_state_ = NOT_PREPARED

\* C27: replicate-before-prepare is survived on a leader-mode driver: when
\* consensus calls HandleConsensusAppend and then ReplicationFinished(OK)
\* before the preparer has run PrepareAndStart, the driver does not crash:
\* the replication callback enters the recovery poll and, once
\* PrepareAndStart has set PREPARED, calls operation_->Replicated exactly
\* once.
LeaderSurvivesReplicateBeforePrepare ==
  [][ ( /\ term # kUnknownTerm
        /\ obs.addedToLeader = 1
        /\ pc[ConsT] = "RF_lock"
        /\ status[ConsT] = "OK"
        /\ prepare_state_ = NOT_PREPARED
        /\ pc'[ConsT] # "RF_lock" )
      => ( /\ ~crashed'
           /\ pc'[ConsT] = "RF_poll"
           /\ replication_state_' = REPLICATED
           /\ obs'.replicated = 0 )
    ]_vars

\* C28: no driver code blocks for ever: every invocation of
\* ReplicationFinished eventually returns, that is, the poll of
\* prepare_state_ always terminates (also when Prepare fails, when the
\* driver is aborted, and for a driver without an operation).
ReplicationFinishedReturns ==
  (pc[ConsT] = "RF_poll") ~> (pc[ConsT] # "RF_poll" \/ crashed)

\* A step of HandleConsensusAppend: its CHECK, the store of the op-id, or
\* AddedToLeader with StartOperation.
HandleConsensusAppendStep ==
  \/ pc[ConsT] = "idle" /\ obs'.appendCalls > obs.appendCalls
  \/ pc[ConsT] \in {"HCA_store", "HCA_added"} /\ pc'[ConsT] # pc[ConsT]

\* C29 as stated: a leader-mode driver stays NOT_REPLICATING from Init until
\* consensus announces the append through HandleConsensusAppend: no step
\* moves it out of NOT_REPLICATING before the append callback has run.
LeaderNotReplicatingUntilAppend ==
  [][ term # kUnknownTerm =>
        /\ (pc[SubT] = "Init" /\ pc'[SubT] # "Init") =>
             replication_state_' = NOT_REPLICATING
        /\ (replication_state_ = NOT_REPLICATING
              /\ replication_state_' # NOT_REPLICATING) => obs.appendCalls >= 1
    ]_vars

\* C29: a leader-mode driver stays NOT_REPLICATING from Init until
\* PrepareAndStart publishes PREPARED: that step, which moves it to
\* REPLICATING, is the only one that moves a leader driver out of
\* NOT_REPLICATING, whether or not the append callback has run, and
\* HandleConsensusAppend never changes replication_state_.
LeaderNotReplicatingUntilPrepared ==
  [][ term # kUnknownTerm =>
        /\ (pc[SubT] = "Init" /\ pc'[SubT] # "Init") =>
             replication_state_' = NOT_REPLICATING
        /\ (replication_state_ = NOT_REPLICATING
              /\ replication_state_' # NOT_REPLICATING) =>
             /\ pc[PrepT] = "PS_lock2"
             /\ prepare_state_ = NOT_PREPARED
             /\ prepare_state_' = PREPARED
             /\ replication_state_' = REPLICATING
        /\ HandleConsensusAppendStep => replication_state_' = replication_state_
    ]_vars

\* A leader-mode driver that PrepareAndStart moved to REPLICATING while
\* consensus had not yet called HandleConsensusAppend.
LeaderNotReplicatingUntilPreparedWitness ==
  /\ term # kUnknownTerm
  /\ initResult = "OK"
  /\ replication_state_ = REPLICATING
  /\ prepare_state_ = PREPARED
  /\ obs.appendCalls = 0
  /\ op_id_copy_ = InvalidOpId
  /\ ~crashed

\* C30: every driver built through NewReplicaOperationDriver is initialised
\* in follower mode (right after Init it is REPLICATING, the op-id of the
\* operation it was given is published, and no new consensus round was
\* requested), and every driver built through NewLeaderOperationDriver is
\* initialised in leader mode (NOT_REPLICATING, a new round requested, no
\* op-id yet).
FactoryFixesDriverMode ==
  [][ (pc[SubT] = "Init" /\ pc'[SubT] # "Init") =>
        /\ builtBy = "NewReplicaOperationDriver" =>
             /\ ~crashed'
             /\ replication_state_' = REPLICATING
             /\ argOperation => op_id_copy_' = opStateOpId
             /\ ~obs'.newRound
        /\ builtBy = "NewLeaderOperationDriver" =>
             /\ ~crashed'
             /\ replication_state_' = NOT_REPLICATING
             /\ op_id_copy_' = InvalidOpId
             /\ obs'.newRound
    ]_vars

\* C31: an Empty driver created by SetPropagatedSafeTime(ht)
\* (NewReplicaOperationDriver(nullptr)) has exactly one effect: when the
\* preparer has run it, ht was pushed to MVCC once and the driver released
\* itself once; it never becomes PREPARED, its replication_state_ is
\* REPLICATING from Init on, and neither operation_->Replicated nor
\* operation_->Aborted is invoked for it.
EmptyDriverOnlyPushesSafeTime ==
  (builtBy = "NewReplicaOperationDriver" /\ ~argOperation) =>
     /\ pc[SubT] # "SEGV_Init"
     /\ pc[SubT] # "Init" => replication_state_ = REPLICATING
     /\ prepare_state_ = NOT_PREPARED
     /\ obs.replicated = 0
     /\ obs.aborted = 0
     /\ obs.mvccPushes <= 1
     /\ obs.release <= 1
     /\ pc[PrepT] = "done" =>
          /\ obs.mvccPushes = 1
          /\ obs.release = 1
          /\ ~inTracker

\* The step in which ExecuteAsync, back from preparer_->Submit, notifies the
\* operation and decides on HandleFailure.
ExecuteAsyncNotified == pc[SubT] = "EA_submitted" /\ pc'[SubT] # "EA_submitted"

\* C32: ExecuteAsync notifies the operation SubmittedToPreparer exactly once
\* whether or not the preparer accepted the driver; when the preparer
\* refuses the submission, HandleFailure is called exactly once with the
\* submission error, PrepareAndStart never runs for the driver, and a leader
\* driver, which is still NOT_REPLICATING, ends aborted with that error and
\* released from the tracker.
SubmissionFailureHandledOnce ==
  [][ /\ ExecuteAsyncNotified =>
           /\ obs.submittedToPreparer = 0
           /\ obs'.submittedToPreparer = IF operation_ THEN 1 ELSE 0
           /\ (status[SubT] = "OK") <=> inPreparer
           /\ pc'[SubT] = IF status[SubT] = "OK" THEN "done" ELSE "HF_read"
      /\ ~ExecuteAsyncNotified => obs'.submittedToPreparer = obs.submittedToPreparer
      /\ pc[SubT] \in {"HF_read", "HF_switch"} => status[SubT] = "SubmitError"
      /\ pc[SubT] = "done" => pc'[SubT] = "done"
      /\ (status[SubT] = "SubmitError" /\ pc[SubT] # "ExecuteAsync"
            /\ pc[SubT] # "Created") =>
           /\ pc'[PrepT] = "idle"
           /\ ~inPreparer'
           /\ prepare_state_' = NOT_PREPARED
      /\ (term # kUnknownTerm /\ pc[SubT] = "HF_switch" /\ pc'[SubT] # "HF_switch") =>
           /\ repl_state_copy[SubT] = NOT_REPLICATING
           /\ replication_state_' = NOT_REPLICATING
           /\ obs'.aborted = obs.aborted + 1
           /\ obs'.abortedStatus = "SubmitError"
           /\ obs'.release = obs.release + 1
           /\ ~inTracker'
           /\ pc'[SubT] = "done"
           /\ ~crashed'
    ]_vars

\* The preparer refused a leader driver: the operation was notified once,
\* aborted once with the submission error and released, and never prepared.
SubmissionFailureHandledOnceWitness ==
  /\ term # kUnknownTerm
  /\ status[SubT] = "SubmitError"
  /\ pc[SubT] = "done"
  /\ pc[PrepT] = "idle"
  /\ obs.submittedToPreparer = 1
  /\ obs.aborted = 1
  /\ obs.abortedStatus = "SubmitError"
  /\ obs.release = 1
  /\ ~inTracker
  /\ prepare_state_ = NOT_PREPARED
  /\ ~crashed

\* C33: an external Abort never crashes the process: in no interleaving with
\* PrepareAndStart, HandleConsensusAppend or ReplicationFinished does the
\* HandleFailure call made by Abort take the fatal branch; the replication
\* state Abort decided on, NOT_REPLICATING, is the state HandleFailure acts
\* on.
AbortNeverFatal ==
  /\ pc[AbortT] # "FATAL_HandleFailure"
  /\ pc[AbortT] = "HF_switch" => repl_state_copy[AbortT] = NOT_REPLICATING

\* ======================================================================
\* Operation types
\* ======================================================================

\* The five operation types that are replicated.
ReplicatedTypes == OperationType \ {"kEmpty"}

\* C25: the mapping between Write, AlterSchema, UpdateTransaction, Truncate,
\* Snapshot and their wire types is a bijection: MapOperationTypeToPB sends
\* them to five distinct wire values, CreateOperation on a replicate message
\* of each of these wire types builds an operation of the type that maps
\* back to it, and Empty has no wire value.
OpTypeMappingBijective ==
  /\ \A d, e \in DriverIds :
       (opTypes.reported[d] # "none" /\ opTypes.reported[d] = opTypes.reported[e])
         => opTypes.type[d] = opTypes.type[e]
  /\ \A d \in DriverIds :
       opTypes.reported[d] # "none" =>
         /\ opTypes.type[d] \in ReplicatedTypes
         /\ opTypes.reported[d] \in WireOperationType
  /\ MapOperationTypeToPB("kEmpty") = "FATAL"
  /\ opTypes.msg \in {MapOperationTypeToPB(t) : t \in ReplicatedTypes} =>
       /\ ~pcrashed
       /\ opTypes.created \in ReplicatedTypes
       /\ MapOperationTypeToPB(opTypes.created) = opTypes.msg

\* ======================================================================
\* Further properties of the peer
\* ======================================================================

\* StartShutdown has returned true to caller t: t is in CompleteShutdown or
\* has returned from the Shutdown it owned.
StartShutdownReturnedTrue(t) ==
  \/ ppc[t] \in {"CS_wait", "CS_preparer", "CS_log", "CS_tablet", "CS_reset", "CS_store"}
  \/ ppc[t] = "returned" /\ pobs.seq[t] # << >>

\* C34: maintenance ops never outlive the start of shutdown: once
\* StartShutdown has returned true the set of registered maintenance ops is
\* empty and stays empty, in every interleaving with RegisterMaintenanceOps,
\* which registers only under state_change_lock_ and only when the state it
\* read under that lock was RUNNING.
MaintenanceOpsGoneAfterStartShutdown ==
  /\ (\E t \in ShutdownCallers : StartShutdownReturnedTrue(t)) => ~maintenance_ops_
  /\ (ppc[LifeT] = "RMO_register" /\ plocal[LifeT].status = "OK") =>
       /\ state_change_lock_ = LifeT
       /\ \A t \in ShutdownCallers :
            ppc[t] # "SS_consensus" /\ ~StartShutdownReturnedTrue(t)

\* RegisterMaintenanceOps called after StartShutdown returned true: it holds
\* the lock, has read QUIESCING and is about to return without registering.
MaintenanceOpsGoneAfterStartShutdownWitness ==
  /\ ppc[LifeT] = "RMO_register"
  /\ plocal[LifeT].status = "NotRunning"
  /\ state_ = QUIESCING
  /\ pobs.unregister = 1
  /\ \E t \in ShutdownCallers : StartShutdownReturnedTrue(t)
  /\ ~maintenance_ops_

\* C35: the shutdown states are absorbing: from QUIESCING the only next state
\* is SHUTDOWN, stored by the caller that completes the shutdown, and
\* SHUTDOWN never changes again; Start with its UpdateState, SetFailed and
\* StartShutdown called in either state leave it unchanged.
ShutdownStatesAbsorbing ==
  [][ /\ state_ = SHUTDOWN => state_' = SHUTDOWN
      /\ state_ = QUIESCING => state_' \in {QUIESCING, SHUTDOWN}
      /\ (state_ = QUIESCING /\ state_' = SHUTDOWN) =>
           \E t \in ShutdownCallers : ppc[t] = "CS_store" /\ ppc'[t] = "returned"
      /\ state_ \in {QUIESCING, SHUTDOWN} =>
           /\ ppc[LifeT] = "S_update" /\ ppc'[LifeT] # "S_update" =>
                state_' = state_ /\ pret'.status = "InvalidArgument"
           /\ pobs'.setFailed # pobs.setFailed => state_' = state_
           /\ \A t \in ShutdownCallers : ppc[t] = "SS_cas" /\ ppc'[t] # "SS_cas" =>
                state_' = state_ /\ ppc'[t] = "WaitUntilShutdown"
    ]_vars

\* Start is about to call UpdateState(BOOTSTRAPPING, RUNNING) on a peer that
\* is QUIESCING, while a second Shutdown caller found it QUIESCING, and
\* SetFailed has been called.
ShutdownStatesAbsorbingWitness ==
  /\ state_ = QUIESCING
  /\ ppc[LifeT] = "S_update"
  /\ \E t \in ShutdownCallers : ppc[t] = "WaitUntilShutdown"
  /\ pobs.setFailed

\* A call of Shutdown is running on thread t.
InShutdown(t) == ppc[t] \notin {"idle", "returned"}

====
